---- MODULE Spec2Model ----
(***************************************************************************)
(* The notebook service of vs/workbench/contrib/notebook/browser/          *)
(* notebookServiceImpl.ts: the provider-info store with its persisted      *)
(* list, the controller registry, the document I/O calls and the registry  *)
(* of notebook text models, each as a state machine.                       *)
(***************************************************************************)
EXTENDS Integers, Sequences, FiniteSets, TLC

None == "none"

(* ------------------------------ input domains -------------------------- *)

ViewTypes == {"jupyter", "custom"}

\* Longest declaration batch handed to setupHandler.
MaxDeclarations == 2

\* Longest list found in storage when the store is constructed.
MaxPersisted == 2

\* The options a NotebookProviderInfo is constructed with.
DefaultOptions == "o0"

\* INotebookEditorContribution entries (with the declaring extension), as
\* the extension point delivers them: viewType, selector, priority string.
Contributions ==
    { [viewType |-> "jupyter", selector |-> "ipynb", priority |-> "default", extension |-> "ext"],
      [viewType |-> "jupyter", selector |-> "nb",    priority |-> "option",  extension |-> "ext"],
      [viewType |-> "custom",  selector |-> "nb",    priority |-> None,      extension |-> "ext"],
      [viewType |-> "custom",  selector |-> "ipynb", priority |-> "builtin", extension |-> "ext"] }

SeqsUpTo(S, n) == UNION { [1..k -> S] : k \in 0..n }

\* The batches of setupHandler: the contributions in the order the two
\* nested loops visit them.
Declarations == SeqsUpTo(Contributions, MaxDeclarations)

\* IMainNotebookController objects: viewOptions (or none) and options.
Controllers ==
    { [id |-> "cA", viewOptions |-> FALSE, filenamePattern |-> None,    exclusive |-> FALSE, options |-> "o1"],
      [id |-> "cB", viewOptions |-> TRUE,  filenamePattern |-> "ipynb", exclusive |-> TRUE,  options |-> "o2"] }

\* The resources getContributedNotebook is asked about: scheme and file
\* extension of the path.
Resources ==
    { [scheme |-> "file", extname |-> "ipynb"],
      [scheme |-> "file", extname |-> "nb"],
      [scheme |-> "file", extname |-> "txt"],
      [scheme |-> "untitled", extname |-> "ipynb"],
      [scheme |-> "untitled", extname |-> "txt"] }

\* The resources notebook models are created for.
Uris == {"file:///a.ipynb", "file:///b.ipynb"}

\* How many NotebookTextModel objects a run creates.
MaxModels == 2

ModelIds == 1..MaxModels

NoModel == 0

\* How many event listeners may be suspended in a call they made.
MaxReentrancy == 1

\* The asynchronous I/O calls that are followed. Calls share no state with
\* one another, only the controller registry they read, so one call at a
\* time is followed, against every registration and deregistration.
CallIds == {"call"}

\* The mime types of output items: supported by core and always secure,
\* supported by core only, and two that core does not support.
MimeTypes == {"text/plain", "text/html", "application/x-custom", "application/x-other"}

\* Notebook renderer contributions (with the declaring extension), as the
\* extension point delivers them; None is an absent property, and so is a
\* mimeTypes field that is not there.
RendererContributions ==
    { [id |-> "r1", viewType |-> None, entrypoint |-> "a.js", extension |-> "extA",
       mimeTypes |-> {"text/html", "application/x-custom"}],
      [id |-> None, viewType |-> "r2", entrypoint |-> "b.js", extension |-> "extA",
       mimeTypes |-> {"text/html"}],
      [id |-> "r1", viewType |-> "r2", entrypoint |-> "c.js", extension |-> "extB",
       mimeTypes |-> {"text/plain"}],
      [id |-> "r3", viewType |-> None, entrypoint |-> "d.js", extension |-> "extB"],
      [id |-> "r3", viewType |-> None, entrypoint |-> None, extension |-> "extA",
       mimeTypes |-> {"text/html"}],
      [id |-> None, viewType |-> None, entrypoint |-> "e.js", extension |-> "extB",
       mimeTypes |-> {"text/plain"}] }

\* Longest list of output items of one output.
MaxOutputs == 3

\* IOutputDto.outputs, by the mime type of each item.
Outputs == SeqsUpTo(MimeTypes, MaxOutputs)

\* The configuration has no value under DisplayOrderKey.
Undefined == [undefined |-> TRUE]

\* The values the configuration holds under DisplayOrderKey.
DisplayOrderSettings ==
    { Undefined,
      [value |-> <<"application/x-other", "text/html">>],
      [value |-> <<"text/plain">>] }

DisplayOrderKey == "notebook.displayOrder"

\* Longest renderer declaration batch.
MaxRendererBatch == 3

RendererBatches == SeqsUpTo(RendererContributions, MaxRendererBatch)

\* The extensions that declare markdown renderers, each with its
\* description and its contributions (id and entrypoint, None when the
\* declaration lacks it).
MarkdownExtensions ==
    { [id |-> "extP", enableProposedApi |-> TRUE, isBuiltin |-> FALSE,
       value |-> << [id |-> "m1", entrypoint |-> "a.js"],
                    [id |-> "m4", entrypoint |-> None] >>],
      [id |-> "extB", enableProposedApi |-> FALSE, isBuiltin |-> TRUE,
       value |-> << [id |-> None, entrypoint |-> "b.js"],
                    [id |-> "m2", entrypoint |-> "c.js"] >>],
      [id |-> "extN", enableProposedApi |-> FALSE, isBuiltin |-> FALSE,
       value |-> << [id |-> "m3", entrypoint |-> "d.js"] >>],
      [id |-> "extQ", enableProposedApi |-> TRUE, isBuiltin |-> TRUE,
       value |-> << [id |-> "m1", entrypoint |-> "e.js"] >>] }

\* Longest markdown renderer declaration batch, in extensions.
MaxMarkdownBatch == 3

MarkdownBatches == SeqsUpTo(MarkdownExtensions, MaxMarkdownBatch)

\* INotebookKernelProvider objects: selector, owning extension and its
\* description (None when it has none), and the kernels it can provide.
KernelProviders ==
    { [id |-> "kA", selector |-> "jupyter", providerExtensionId |-> "extA",
       providerDescription |-> "Kernels of A"],
      [id |-> "kB", selector |-> "*", providerExtensionId |-> "extB",
       providerDescription |-> None],
      [id |-> "kC", selector |-> "custom", providerExtensionId |-> "extA",
       providerDescription |-> ""] }

\* Longest array of kernel providers the store is grown to.
MaxKernelProviders == 2

\* What provideKernels of a provider resolves to, or the failure it
\* rejects with.
Enumerations(provider) ==
    { [ok |-> TRUE, data |-> <<>>],
      [ok |-> TRUE, data |-> <<provider.id \o "-1", provider.id \o "-2">>],
      [ok |-> FALSE, data |-> <<"failure of " \o provider.id>>] }

(* ------------------------------- state --------------------------------- *)

VARIABLES
    _contributedEditors,  \* NotebookProviderInfoStore: the Map, in insertion order
    persisted,            \* the list saved under 'editors' by saveMemento
    _handled,             \* NotebookProviderInfoStore._handled
    viewTypesRegistry,    \* NotebookViewTypesExtensionRegistry.viewTypes
    _notebookProviders,   \* NotebookService: viewType -> controller, or None
    handles,              \* the disposables registerNotebookController returned
    setupCalled,          \* history: setupHandler has been called
    _models,              \* NotebookService: uri -> registered model, or NoModel
    models,               \* every NotebookTextModel created, with its ModelData
    stack,                \* the calls in progress, innermost last
    calls,                \* the asynchronous I/O calls in flight
    contributedRenderers, \* NotebookOutputRendererInfoStore: the Map, in insertion order
    userOrderSetting,     \* configuration: the value under DisplayOrderKey, or None
    screenReaderOptimized,\* accessibility service: isScreenReaderOptimized()
    _displayOrder,        \* NotebookService._displayOrder
    output,               \* the output getMimeTypeInfo is called with, and the document's trust
    _notebookKernelProviders, \* NotebookKernelProviderInfoStore: the array
    extensionIds,         \* NotebookKernelProviderAssociationRegistry.extensionIds
    extensionDescriptions,\* NotebookKernelProviderAssociationRegistry.extensionDescriptions
    kernelHandles,        \* the disposables the kernel store's add returned
    kernelsCall,          \* the getNotebookKernels call in flight
    _markdownRenderersInfos, \* NotebookService: the Set, in insertion order
    last                  \* history: the last call, its input, outcome and events

storeVars == <<_contributedEditors, persisted, _handled, viewTypesRegistry, setupCalled>>
ctrlVars == <<_notebookProviders, handles>>
modelVars == <<_models, models, stack>>
ioVars == <<calls>>
rendererVars == <<contributedRenderers, userOrderSetting, screenReaderOptimized,
                  _displayOrder, output>>
kernelVars == <<_notebookKernelProviders, extensionIds, extensionDescriptions,
                kernelHandles, kernelsCall>>
markdownVars == <<_markdownRenderersInfos>>
vars == <<storeVars, ctrlVars, modelVars, ioVars, rendererVars, kernelVars,
         markdownVars, last>>

Call(op, arg, res, ev) == [op |-> op, arg |-> arg, res |-> res, ev |-> ev]

(* ------------------------ NotebookProviderInfoStore -------------------- *)

Ids(editors) == [i \in 1..Len(editors) |-> editors[i].id]

Has(editors, id) == \E i \in 1..Len(editors) : editors[i].id = id

Get(editors, id) ==
    IF Has(editors, id)
    THEN editors[CHOOSE i \in 1..Len(editors) : editors[i].id = id]
    ELSE None

\* What JSON keeps of a NotebookProviderInfo: its NotebookEditorDescriptor.
Descriptor(info) ==
    [id |-> info.id, selectors |-> info.selectors, priority |-> info.priority,
     providerExtensionId |-> info.providerExtensionId,
     dynamicContribution |-> info.dynamicContribution, exclusive |-> info.exclusive]

\* new NotebookProviderInfo(descriptor)
NotebookProviderInfo(d) ==
    [id |-> d.id, selectors |-> d.selectors, priority |-> d.priority,
     providerExtensionId |-> d.providerExtensionId,
     dynamicContribution |-> d.dynamicContribution, exclusive |-> d.exclusive,
     options |-> DefaultOptions]

\* info.update({options})
UpdateOptions(info, options) == [info EXCEPT !.options = options]

\* mementoObject['editors'] = Array.from(values); saveMemento()
SaveMemento(editors) == [i \in 1..Len(editors) |-> Descriptor(editors[i])]

_convertPriority(priority) ==
    IF priority = None THEN "default"
    ELSE IF priority = "default" THEN "default"
    ELSE "option"

\* The store as a pair, for the operations that thread it through a loop.
Store(editors, saved) == [editors |-> editors, persisted |-> saved]

\* clear() that leaves the Map as it is.
clearKeepsEntries(st) == st

clear(st) == Store(<<>>, st.persisted)

\* add() that sets the entry whether or not the id is there.
addReplacing(st, info) ==
    LET editors == IF Has(st.editors, info.id)
                   THEN [i \in 1..Len(st.editors) |->
                            IF st.editors[i].id = info.id THEN info ELSE st.editors[i]]
                   ELSE Append(st.editors, info)
    IN  Store(editors, SaveMemento(editors))

\* add() that sets the entry and returns before it writes the memento.
addWithoutSave(st, info) ==
    IF Has(st.editors, info.id)
    THEN st
    ELSE Store(Append(st.editors, info), st.persisted)

add(st, info) ==
    IF Has(st.editors, info.id)
    THEN st
    ELSE LET editors == Append(st.editors, info)
         IN  Store(editors, SaveMemento(editors))

\* NotebookProviderInfo.matches(resource): a selector of the info matches
\* the resource.
providerMatches(info, resource) ==
    info.selectors # None /\ info.selectors = resource.extname

\* getContributedNotebook without its test on the scheme.
getContributedNotebookMatchingOnly(editors, resource) ==
    SelectSeq(editors, LAMBDA customEditor : providerMatches(customEditor, resource))

\* NotebookProviderInfoStore.getContributedNotebook
getContributedNotebook(editors, resource) ==
    SelectSeq(editors, LAMBDA customEditor :
        resource.scheme = "untitled" \/ providerMatches(customEditor, resource))

RECURSIVE addAll(_, _)
addAll(st, infos) ==
    IF infos = <<>> THEN st
    ELSE addAll(add(st, Head(infos)), Tail(infos))

\* The NotebookProviderInfo setupHandler builds from one contribution.
ContributedInfo(c) ==
    NotebookProviderInfo(
        [id |-> c.viewType, selectors |-> c.selector,
         priority |-> _convertPriority(c.priority),
         providerExtensionId |-> c.extension,
         dynamicContribution |-> FALSE, exclusive |-> FALSE])

_updateProviderExtensionsInfo(editors) ==
    LET kept == { i \in 1..Len(editors) : editors[i].providerExtensionId # None }
        F[i \in 0..Len(editors)] ==
            IF i = 0 THEN <<>>
            ELSE IF i \in kept THEN Append(F[i - 1], editors[i].id) ELSE F[i - 1]
    IN  F[Len(editors)]

\* setupHandler's effect on the store: clear, add each, save.
setupHandlerStore(st, extensions) ==
    LET infos == [i \in 1..Len(extensions) |-> ContributedInfo(extensions[i])]
        filled == addAll(clear(st), infos)
    IN  Store(filled.editors, SaveMemento(filled.editors))

\* The listener without its guard on _handled.
SelfHealAlways == TRUE

\* The guard of the onDidRegisterExtensions listener.
ShouldSelfHeal == ~_handled

\* The body of the onDidRegisterExtensions listener under its guard.
selfHealStore(st) == Store(clear(st).editors, <<>>)

CurrentStore == Store(_contributedEditors, persisted)

SetStore(st) ==
    /\ _contributedEditors' = st.editors
    /\ persisted' = st.persisted

(* --------------------- NotebookOutputRendererInfoStore ----------------- *)

\* new NotebookOutputRendererInfo({id, extension, entrypoint, mimeTypes})
NotebookOutputRendererInfo(id, c) ==
    [id |-> id, extension |-> c.extension, entrypoint |-> c.entrypoint,
     mimeTypes |-> IF "mimeTypes" \in DOMAIN c THEN c.mimeTypes ELSE {}]

\* NotebookOutputRendererInfo.matches(mimeType)
Matches(info, mimeType) == mimeType \in info.mimeTypes

\* add() of the renderer store that sets the entry whether or not the id
\* is there.
rendererAddReplacing(renderers, info) ==
    IF Has(renderers, info.id)
    THEN [i \in 1..Len(renderers) |->
             IF renderers[i].id = info.id THEN info ELSE renderers[i]]
    ELSE Append(renderers, info)

\* NotebookOutputRendererInfoStore.add
rendererAdd(renderers, info) ==
    IF Has(renderers, info.id) THEN renderers ELSE Append(renderers, info)

\* NotebookOutputRendererInfoStore.clear
rendererClear(renderers) == <<>>

\* NotebookOutputRendererInfoStore.getContributedRenderer
getContributedRenderer(renderers, mimeType) ==
    SelectSeq(renderers, LAMBDA info : Matches(info, mimeType))

(* ---------------- NotebookService: renderer declarations --------------- *)

\* const id = notebookContribution.id ?? notebookContribution.viewType
rendererId(c) == IF c.id # None THEN c.id ELSE c.viewType

\* The loops of the handler with return where they have continue.
RECURSIVE registerRenderersAborting(_, _)
registerRenderersAborting(renderers, contributions) ==
    IF contributions = <<>> THEN renderers
    ELSE LET c == Head(contributions)
         IN  IF c.entrypoint = None THEN renderers
             ELSE IF rendererId(c) = None THEN renderers
             ELSE registerRenderersAborting(
                      rendererAdd(renderers, NotebookOutputRendererInfo(rendererId(c), c)),
                      Tail(contributions))

\* The loops of the handler: a contribution without entrypoint or without
\* id is passed over, every other one is added.
RECURSIVE registerRenderers(_, _)
registerRenderers(renderers, contributions) ==
    IF contributions = <<>> THEN renderers
    ELSE LET c == Head(contributions)
         IN  IF c.entrypoint = None
             THEN registerRenderers(renderers, Tail(contributions))
             ELSE IF rendererId(c) = None
             THEN registerRenderers(renderers, Tail(contributions))
             ELSE registerRenderers(
                      rendererAdd(renderers, NotebookOutputRendererInfo(rendererId(c), c)),
                      Tail(contributions))

\* The handler of notebookRendererExtensionPoint.
rendererSetHandler(renderers) ==
    /\ contributedRenderers' =
          registerRenderers(rendererClear(contributedRenderers), renderers)
    /\ last' = Call("rendererSetHandler", renderers, "ok", <<>>)
    /\ UNCHANGED <<storeVars, ctrlVars, modelVars, ioVars, kernelVars,
                   userOrderSetting, screenReaderOptimized, _displayOrder, output, markdownVars>>

(* ----------- NotebookService: markdown renderer declarations ---------- *)

\* new NotebookMarkdownRendererInfo({id, extension, entrypoint})
NotebookMarkdownRendererInfo(extension, c) ==
    [id |-> c.id, extension |-> extension.id, entrypoint |-> c.entrypoint]

\* The inner loop of the handler, over the contributions of one extension.
RECURSIVE registerMarkdownContributions(_, _, _)
registerMarkdownContributions(infos, extension, contributions) ==
    IF contributions = <<>> THEN infos
    ELSE LET c == Head(contributions)
         IN  IF c.entrypoint = None
             THEN registerMarkdownContributions(infos, extension, Tail(contributions))
             ELSE IF c.id = None
             THEN registerMarkdownContributions(infos, extension, Tail(contributions))
             ELSE registerMarkdownContributions(
                      Append(infos, NotebookMarkdownRendererInfo(extension, c)),
                      extension, Tail(contributions))

\* The outer loop of the handler: it returns at the first extension that
\* is neither built-in nor has the proposed API enabled.
RECURSIVE registerMarkdownRenderers(_, _)
registerMarkdownRenderers(infos, renderers) ==
    IF renderers = <<>> THEN infos
    ELSE LET extension == Head(renderers)
         IN  IF ~extension.enableProposedApi /\ ~extension.isBuiltin
             THEN infos
             ELSE registerMarkdownRenderers(
                      registerMarkdownContributions(infos, extension, extension.value),
                      Tail(renderers))

\* The handler of notebookMarkdownRendererExtensionPoint.
markdownSetHandler(renderers) ==
    /\ _markdownRenderersInfos' = registerMarkdownRenderers(<<>>, renderers)
    /\ last' = Call("markdownSetHandler", renderers, "ok", <<>>)
    /\ UNCHANGED <<storeVars, ctrlVars, modelVars, ioVars, rendererVars, kernelVars>>

\* NotebookService.getMarkdownRendererInfo
getMarkdownRendererInfo ==
    /\ last' = Call("getMarkdownRendererInfo", None, _markdownRenderersInfos, <<>>)
    /\ UNCHANGED <<storeVars, ctrlVars, modelVars, ioVars, rendererVars, kernelVars,
                   markdownVars>>

(* ------------------- NotebookService: display order -------------------- *)

\* ACCESSIBLE_NOTEBOOK_DISPLAY_ORDER
AccessibleOrder == <<"text/plain", "text/html">>

\* No output to resolve.
NoOutput == [outputs |-> <<>>, trusted |-> FALSE]

\* updateOrder that takes the accessible order whatever the mode.
updateOrderAlwaysAccessible(setting, screenReader) ==
    [defaultOrder |-> AccessibleOrder, userOrder |-> setting]

\* updateOrder: the value of _displayOrder it assigns.
updateOrder(setting, screenReader) ==
    [defaultOrder |-> IF screenReader THEN AccessibleOrder ELSE <<>>,
     userOrder |-> setting]

\* onDidChangeConfiguration with DisplayOrderKey among the affected keys
\* (the configuration then holds `setting`) or with another key only.
AffectedKeys == {{DisplayOrderKey}, {"editor.fontSize"}}

onDidChangeConfiguration(affectedKeys, setting) ==
    /\ DisplayOrderKey \in affectedKeys \/ setting = userOrderSetting
    /\ userOrderSetting' = setting
    /\ _displayOrder' = IF DisplayOrderKey \in affectedKeys
                        THEN updateOrder(setting, screenReaderOptimized)
                        ELSE _displayOrder
    /\ last' = Call("onDidChangeConfiguration", affectedKeys, "ok", <<>>)
    /\ UNCHANGED <<storeVars, ctrlVars, modelVars, ioVars, kernelVars,
                   contributedRenderers, screenReaderOptimized, output, markdownVars>>

onDidChangeScreenReaderOptimized(screenReader) ==
    /\ screenReaderOptimized' = screenReader
    /\ _displayOrder' = updateOrder(userOrderSetting, screenReader)
    /\ last' = Call("onDidChangeScreenReaderOptimized", screenReader, "ok", <<>>)
    /\ UNCHANGED <<storeVars, ctrlVars, modelVars, ioVars, kernelVars,
                   contributedRenderers, userOrderSetting, output, markdownVars>>

(* ------------------- NotebookService: getMimeTypeInfo ------------------ *)

BUILTIN_RENDERER_ID == "_builtin"

RENDERER_NOT_AVAILABLE == "_notAvailable"

mimeTypeSupportedByCore(mimeType) == mimeType \in {"text/plain", "text/html"}

mimeTypeIsAlwaysSecure(mimeType) == mimeType \in {"text/plain"}

\* The forEach over output.outputs without the test on mimeTypeSet.
collectMimeTypesRepeating(outputs) == outputs

\* The forEach over output.outputs: the mime types, each at its first
\* occurrence.
collectMimeTypes(outputs) ==
    LET F[i \in 0..Len(outputs)] ==
            IF i = 0 THEN <<>>
            ELSE IF \E j \in 1..Len(F[i - 1]) : F[i - 1][j] = outputs[i]
                 THEN F[i - 1]
                 ELSE Append(F[i - 1], outputs[i])
    IN  F[Len(outputs)]

\* coreDisplayOrder?.userOrder ?? []
orEmpty(order) == IF "value" \in DOMAIN order THEN order.value ELSE <<>>

\* sortMimeTypes(mimeTypes, userOrder, defaultOrder): the mime types of
\* the user order in that order, then those of the default order in that
\* order, then the others as they come.
sortMimeTypes(mimeTypes, userOrder, defaultOrder) ==
    LET order == userOrder \o defaultOrder
        given(mimeType) == \E i \in 1..Len(mimeTypes) : mimeTypes[i] = mimeType
        P[i \in 0..Len(order)] ==
            IF i = 0 THEN <<>>
            ELSE IF given(order[i]) /\ \A j \in 1..(i - 1) : order[j] # order[i]
                 THEN Append(P[i - 1], order[i])
                 ELSE P[i - 1]
    IN  P[Len(order)] \o
        SelectSeq(mimeTypes,
                  LAMBDA mimeType : \A i \in 1..Len(order) : order[i] # mimeType)

\* NotebookService._findBestMatchedRenderer
_findBestMatchedRenderer(renderers, mimeType) ==
    getContributedRenderer(renderers, mimeType)

OrderedMimeType(mimeType, id, isTrusted) ==
    [mimeType |-> mimeType, rendererId |-> id, isTrusted |-> isTrusted]

\* isTrusted of a built-in entry that is always true.
builtinTrustedAlways(mimeType, trusted) == TRUE

\* isTrusted of a built-in entry.
builtinTrusted(mimeType, trusted) == mimeTypeIsAlwaysSecure(mimeType) \/ trusted

\* The entries of handlers[from..]
handlerEntries(handlers, from, mimeType, trusted) ==
    [i \in 1..(Len(handlers) - from + 1) |->
        OrderedMimeType(mimeType, handlers[i + from - 1].id, trusted)]

\* The body of sorted.forEach without the loop over handlers[1..].
entriesOfFirstHandler(renderers, mimeType, trusted) ==
    LET handlers == _findBestMatchedRenderer(renderers, mimeType)
        builtin == OrderedMimeType(mimeType, BUILTIN_RENDERER_ID,
                                   builtinTrusted(mimeType, trusted))
    IN  IF Len(handlers) > 0
        THEN <<OrderedMimeType(mimeType, handlers[1].id, trusted)>>
             \o (IF mimeTypeSupportedByCore(mimeType) THEN <<builtin>> ELSE <<>>)
        ELSE IF mimeTypeSupportedByCore(mimeType) THEN <<builtin>>
        ELSE <<OrderedMimeType(mimeType, RENDERER_NOT_AVAILABLE, trusted)>>

\* The body of sorted.forEach: what it pushes for one mime type.
entriesOf(renderers, mimeType, trusted) ==
    LET handlers == _findBestMatchedRenderer(renderers, mimeType)
        builtin == OrderedMimeType(mimeType, BUILTIN_RENDERER_ID,
                                   builtinTrusted(mimeType, trusted))
    IN  IF Len(handlers) > 0
        THEN <<OrderedMimeType(mimeType, handlers[1].id, trusted)>>
             \o handlerEntries(handlers, 2, mimeType, trusted)
             \o (IF mimeTypeSupportedByCore(mimeType) THEN <<builtin>> ELSE <<>>)
        ELSE IF mimeTypeSupportedByCore(mimeType) THEN <<builtin>>
        ELSE <<OrderedMimeType(mimeType, RENDERER_NOT_AVAILABLE, trusted)>>

\* getMimeTypeInfo: the sequence it returns.
orderMimeTypes(renderers, displayOrder, out) ==
    LET sorted == sortMimeTypes(collectMimeTypes(out.outputs),
                                orEmpty(displayOrder.userOrder),
                                displayOrder.defaultOrder)
        R[i \in 0..Len(sorted)] ==
            IF i = 0 THEN <<>>
            ELSE R[i - 1] \o entriesOf(renderers, sorted[i], out.trusted)
    IN  R[Len(sorted)]

\* NotebookService.getMimeTypeInfo(textModel, output), textModel with
\* metadata.trusted = output.trusted.
getMimeTypeInfo ==
    /\ last' = Call("getMimeTypeInfo", output,
                    orderMimeTypes(contributedRenderers, _displayOrder, output), <<>>)
    /\ UNCHANGED <<storeVars, ctrlVars, modelVars, ioVars, kernelVars, rendererVars, markdownVars>>

(* --------------------- NotebookKernelProviderInfoStore ----------------- *)

\* No getNotebookKernels call in flight. A call holds the providers it
\* filtered, its result array, the enumerations still pending, and how it
\* ended: "ok" with the kernels it returned, "failed" with the failure it
\* threw; and as history, the enumerations in the order they settled.
NoKernelsCall ==
    [pc |-> "idle", providers |-> <<>>, result |-> <<>>, pending |-> {},
     outcome |-> None, value |-> <<>>, settled |-> <<>>]

\* _updateProviderExtensionsInfo without the two resets of length.
_appendKernelProviderExtensionsInfo(providers) ==
    [ids |-> extensionIds \o [i \in 1..Len(providers) |-> providers[i].providerExtensionId],
     descriptions |-> extensionDescriptions \o
        [i \in 1..Len(providers) |->
            IF providers[i].providerDescription = None THEN ""
            ELSE providers[i].providerDescription]]

\* NotebookKernelProviderInfoStore._updateProviderExtensionsInfo: the two
\* lists it leaves in NotebookKernelProviderAssociationRegistry.
_updateKernelProviderExtensionsInfo(providers) ==
    [ids |-> [i \in 1..Len(providers) |-> providers[i].providerExtensionId],
     descriptions |-> [i \in 1..Len(providers) |->
        IF providers[i].providerDescription = None THEN ""
        ELSE providers[i].providerDescription]]

\* this._notebookKernelProviders.indexOf(provider), 0 when it is not there.
indexOf(providers, provider) ==
    IF \E i \in 1..Len(providers) : providers[i] = provider
    THEN CHOOSE i \in 1..Len(providers) :
            /\ providers[i] = provider
            /\ \A j \in 1..(i - 1) : providers[j] # provider
    ELSE 0

\* this._notebookKernelProviders.splice(idx, 1)
splice(providers, idx) ==
    [i \in 1..(Len(providers) - 1) |-> IF i < idx THEN providers[i] ELSE providers[i + 1]]

\* notebookDocumentFilterMatch(provider.selector, viewType, resource)
notebookDocumentFilterMatch(selector, viewType) == selector = "*" \/ selector = viewType

\* NotebookKernelProviderInfoStore.get(viewType, resource)
kernelGet(providers, viewType) ==
    SelectSeq(providers, LAMBDA provider : notebookDocumentFilterMatch(provider.selector, viewType))

SetKernelRegistry(providers) ==
    LET info == _updateKernelProviderExtensionsInfo(providers)
    IN  /\ extensionIds' = info.ids
        /\ extensionDescriptions' = info.descriptions

\* NotebookKernelProviderInfoStore.add(provider)
kernelAdd(provider) ==
    /\ Len(_notebookKernelProviders) < MaxKernelProviders
    /\ _notebookKernelProviders' = Append(_notebookKernelProviders, provider)
    /\ SetKernelRegistry(_notebookKernelProviders')
    /\ kernelHandles' = kernelHandles \cup {provider}
    /\ last' = Call("kernelAdd", provider, "ok", <<>>)
    /\ UNCHANGED <<storeVars, ctrlVars, modelVars, ioVars, rendererVars, kernelsCall, markdownVars>>

\* dispose() of a handle the kernel store's add returned for the provider.
kernelDispose(provider) ==
    LET idx == indexOf(_notebookKernelProviders, provider)
    IN  /\ _notebookKernelProviders' =
              IF idx >= 1 THEN splice(_notebookKernelProviders, idx)
              ELSE _notebookKernelProviders
        /\ SetKernelRegistry(_notebookKernelProviders')
        /\ last' = Call("kernelDispose", provider, "ok", <<>>)
        /\ UNCHANGED <<storeVars, ctrlVars, modelVars, ioVars, rendererVars,
                       kernelHandles, kernelsCall, markdownVars>>

(* -------------------- NotebookService: getNotebookKernels -------------- *)

\* An element of new Array(n) that was never assigned.
Hole == <<"<empty>">>

\* result.push(data) in place of result[index] = data.
pushResult(result, index, data) ==
    LET first == CHOOSE i \in 1..Len(result) :
                    result[i] = Hole /\ \A j \in 1..(i - 1) : result[j] # Hole
    IN  [result EXCEPT ![first] = data]

\* result[index] = data
storeResult(result, index, data) == [result EXCEPT ![index] = data]

\* flatten(result)
RECURSIVE flatten(_)
flatten(arrays) ==
    IF arrays = <<>> THEN <<>> ELSE Head(arrays) \o flatten(Tail(arrays))

\* getNotebookKernels up to await Promise.all(promises): the store is
\* filtered and provideKernels is called on every provider it returned.
getNotebookKernels(viewType) ==
    LET filteredProvider == kernelGet(_notebookKernelProviders, viewType)
        result == [i \in 1..Len(filteredProvider) |-> Hole]
    IN  /\ kernelsCall.pc \in {"idle", "done"}
        /\ kernelsCall' =
              IF filteredProvider = <<>>
              THEN [NoKernelsCall EXCEPT !.pc = "done", !.outcome = "ok",
                                         !.value = flatten(result)]
              ELSE [NoKernelsCall EXCEPT !.pc = "pending", !.providers = filteredProvider,
                                         !.result = result,
                                         !.pending = 1..Len(filteredProvider)]
        /\ last' = Call("getNotebookKernels", viewType, "start", <<>>)
        /\ UNCHANGED <<storeVars, ctrlVars, modelVars, ioVars, rendererVars,
                       _notebookKernelProviders, extensionIds, extensionDescriptions,
                       kernelHandles, markdownVars>>

\* provideKernels of one provider settles: its callback stores the data,
\* or its promise rejects; Promise.all resolves with the last fulfilment
\* and rejects with the first rejection, and the call returns or throws.
provideKernelsSettles(index, e) ==
    LET c == kernelsCall
        result == IF e.ok THEN storeResult(c.result, index, e.data) ELSE c.result
        pending == c.pending \ {index}
    IN  /\ index \in c.pending
        /\ e \in Enumerations(c.providers[index])
        /\ kernelsCall' =
              [c EXCEPT !.result = result, !.pending = pending,
                        !.settled = Append(@, [index |-> index, ok |-> e.ok, data |-> e.data]),
                        !.pc = IF c.outcome = None /\ e.ok /\ pending # {}
                               THEN "pending" ELSE "done",
                        !.outcome = IF c.outcome # None THEN c.outcome
                                    ELSE IF ~e.ok THEN "failed"
                                    ELSE IF pending = {} THEN "ok" ELSE None,
                        !.value = IF c.outcome # None THEN c.value
                                  ELSE IF ~e.ok THEN e.data
                                  ELSE IF pending = {} THEN flatten(result) ELSE <<>>]
        /\ last' = Call("getNotebookKernels", index, "settle", <<>>)
        /\ UNCHANGED <<storeVars, ctrlVars, modelVars, ioVars, rendererVars,
                       _notebookKernelProviders, extensionIds, extensionDescriptions,
                       kernelHandles, markdownVars>>

(* ------------------- NotebookService: controller registry -------------- *)

ControllerIds == { c.id : c \in Controllers }

\* The dynamic NotebookProviderInfo without its update of the selectors.
DynamicInfoWithoutSelectors(viewType, controller) ==
    UpdateOptions(NotebookProviderInfo(
                      [id |-> viewType, selectors |-> None, priority |-> "default",
                       providerExtensionId |-> "ext",
                       dynamicContribution |-> TRUE, exclusive |-> controller.exclusive]),
                  controller.options)

\* The dynamic NotebookProviderInfo of a controller with viewOptions, after
\* its two update calls.
DynamicInfo(viewType, controller) ==
    LET info == NotebookProviderInfo(
                    [id |-> viewType, selectors |-> None, priority |-> "default",
                     providerExtensionId |-> "ext",
                     dynamicContribution |-> TRUE, exclusive |-> controller.exclusive])
    IN  UpdateOptions([info EXCEPT !.selectors = controller.filenamePattern],
                      controller.options)

\* this._notebookProviderInfoStore.get(viewType)?.update({ options })
RefreshOptions(editors, viewType, options) ==
    [i \in 1..Len(editors) |->
        IF editors[i].id = viewType THEN UpdateOptions(editors[i], options) ELSE editors[i]]

\* registerNotebookController's effect on the store, past its guard.
registerStore(st, viewType, controller) ==
    LET added == IF controller.viewOptions /\ ~Has(st.editors, viewType)
                 THEN add(st, DynamicInfo(viewType, controller))
                 ELSE st
    IN  Store(RefreshOptions(added.editors, viewType, controller.options), added.persisted)

\* this._onDidChangeEditorTypes.fire(): the event, with the controller map
\* its listeners find.
EditorTypesChanged(providers) ==
    [event |-> "onDidChangeEditorTypes", providers |-> providers]

\* The disposable's callback with its two statements exchanged.
disposeRegistrationFiringFirst(providers, viewType) ==
    [providers |-> [providers EXCEPT ![viewType] = None],
     ev |-> <<EditorTypesChanged(providers)>>]

\* The callback of the disposable registerNotebookController returns:
\* delete, then fire.
disposeRegistration(providers, viewType) ==
    LET deleted == [providers EXCEPT ![viewType] = None]
    IN  [providers |-> deleted, ev |-> <<EditorTypesChanged(deleted)>>]

\* registerNotebookController without its guard.
NeverRegistered(viewType) == FALSE

\* The guard of registerNotebookController.
AlreadyRegistered(viewType) == _notebookProviders[viewType] # None

(* ------------------------------ actions -------------------------------- *)

setupHandler(extensions) ==
    LET st == setupHandlerStore(CurrentStore, extensions)
    IN  /\ _handled' = TRUE
        /\ SetStore(st)
        /\ viewTypesRegistry' = _updateProviderExtensionsInfo(st.editors)
        /\ setupCalled' = TRUE
        /\ last' = Call("setupHandler", extensions, "ok", <<>>)
        /\ UNCHANGED <<ctrlVars, modelVars, ioVars, rendererVars, kernelVars, markdownVars>>

onDidRegisterExtensions ==
    /\ IF ShouldSelfHeal
       THEN LET st == selfHealStore(CurrentStore)
            IN  /\ SetStore(st)
                /\ viewTypesRegistry' = _updateProviderExtensionsInfo(st.editors)
       ELSE UNCHANGED <<_contributedEditors, persisted, viewTypesRegistry>>
    /\ last' = Call("onDidRegisterExtensions", None, "ok", <<>>)
    /\ UNCHANGED <<_handled, setupCalled, ctrlVars, modelVars, ioVars, rendererVars, kernelVars, markdownVars>>

storeAdd(info) ==
    /\ SetStore(add(CurrentStore, info))
    /\ last' = Call("add", info, "ok", <<>>)
    /\ UNCHANGED <<_handled, viewTypesRegistry, setupCalled, ctrlVars, modelVars, ioVars, rendererVars, kernelVars, markdownVars>>

storeClear ==
    /\ SetStore(clear(CurrentStore))
    /\ last' = Call("clear", None, "ok", <<>>)
    /\ UNCHANGED <<_handled, viewTypesRegistry, setupCalled, ctrlVars, modelVars, ioVars, rendererVars, kernelVars, markdownVars>>

\* getContributedNotebook(resource), called from outside.
storeGetContributedNotebook(resource) ==
    /\ last' = Call("getContributedNotebook", resource,
                    getContributedNotebook(_contributedEditors, resource), <<>>)
    /\ UNCHANGED <<storeVars, ctrlVars, modelVars, ioVars, rendererVars, kernelVars, markdownVars>>

registerNotebookController(viewType, controller) ==
    IF AlreadyRegistered(viewType)
    THEN /\ last' = Call("registerNotebookController", <<viewType, controller.id>>, "throw", <<>>)
         /\ UNCHANGED <<storeVars, ctrlVars, modelVars, ioVars, rendererVars, kernelVars, markdownVars>>
    ELSE /\ _notebookProviders' = [_notebookProviders EXCEPT ![viewType] = controller.id]
         /\ SetStore(registerStore(CurrentStore, viewType, controller))
         /\ handles' = handles \cup {<<viewType, controller.id>>}
         /\ last' = Call("registerNotebookController", <<viewType, controller.id>>, "ok",
                         <<EditorTypesChanged(_notebookProviders')>>)
         /\ UNCHANGED <<_handled, viewTypesRegistry, setupCalled, modelVars, ioVars, rendererVars, kernelVars, markdownVars>>

\* dispose() of a handle registerNotebookController returned.
disposeController(handle) ==
    /\ _notebookProviders' = disposeRegistration(_notebookProviders, handle[1]).providers
    /\ last' = Call("disposeController", handle, "ok",
                    disposeRegistration(_notebookProviders, handle[1]).ev)
    /\ UNCHANGED <<storeVars, handles, modelVars, ioVars, rendererVars, kernelVars, markdownVars>>

\* add() of the renderer store, called from outside.
rendererStoreAdd(info) ==
    /\ contributedRenderers' = rendererAdd(contributedRenderers, info)
    /\ last' = Call("rendererAdd", info, "ok", <<>>)
    /\ UNCHANGED <<storeVars, ctrlVars, modelVars, ioVars, kernelVars,
                   userOrderSetting, screenReaderOptimized, _displayOrder, output, markdownVars>>

\* clear() of the renderer store, called from outside.
rendererStoreClear ==
    /\ contributedRenderers' = rendererClear(contributedRenderers)
    /\ last' = Call("rendererClear", None, "ok", <<>>)
    /\ UNCHANGED <<storeVars, ctrlVars, modelVars, ioVars, kernelVars,
                   userOrderSetting, screenReaderOptimized, _displayOrder, output, markdownVars>>

(* --------------------- NotebookService: model registry ----------------- *)

\* A model id no createNotebookTextModel has used yet.
NotCreated == [uri |-> None, state |-> "none", listening |-> FALSE, added |-> 0, removed |-> 0]

Created == { m \in ModelIds : models[m].state # "none" }

\* new ModelData(model, ...) that never subscribes to model.onWillDispose.
NewModelDataUnsubscribed(uri) ==
    [uri |-> uri, state |-> "alive", listening |-> FALSE, added |-> 0, removed |-> 0]

\* createInstance(NotebookTextModel, ...) wrapped in new ModelData(model,
\* onWillDispose), whose constructor subscribes to model.onWillDispose.
NewModelData(uri) ==
    [uri |-> uri, state |-> "alive", listening |-> TRUE, added |-> 0, removed |-> 0]

\* createNotebookTextModel without its guard.
HasModelNever(uri) == FALSE

\* this._models.has(uri)
HasModel(uri) == _models[uri] # NoModel

getNotebookTextModel(uri) == _models[uri]

\* _onWillDisposeDocument that takes the model it is handed for the one
\* the index holds.
getModelDataOfArgument(index, m) == m

\* const modelData = this._models.get(model.uri)
getModelData(index, m) == index[models[m].uri]

\* _onWillDisposeDocument that leaves the entry in the index.
KeepInIndex(index, uri) == index

\* this._models.delete(model.uri)
DeleteFromIndex(index, uri) == [index EXCEPT ![uri] = NoModel]

Frame(fn, m, md, pc) == [fn |-> fn, m |-> m, md |-> md, pc |-> pc]

Top == stack[Len(stack)]

Pop == SubSeq(stack, 1, Len(stack) - 1)

TopAt(pc) == [stack EXCEPT ![Len(stack)].pc = pc]

\* The event listeners that are running or suspended in a call they made.
Suspended == { i \in 1..Len(stack) : stack[i].pc = "listeners" }

\* Code outside the service runs: at top level, or in an event listener.
CanCall ==
    IF stack = <<>>
    THEN TRUE
    ELSE Top.pc = "listeners" /\ Cardinality(Suspended) <= MaxReentrancy

createNotebookTextModel(uri) ==
    /\ CanCall
    /\ IF HasModel(uri)
       THEN /\ last' = Call("createNotebookTextModel", <<uri, NoModel>>, "throw", <<>>)
            /\ UNCHANGED modelVars
       ELSE \E m \in ModelIds \ Created :
              /\ \A n \in ModelIds \ Created : m <= n
              /\ _models' = [_models EXCEPT ![uri] = m]
              /\ models' = [models EXCEPT ![m] = [NewModelData(uri) EXCEPT !.added = 1]]
              /\ stack' = Append(stack, Frame("createNotebookTextModel", m, NoModel, "listeners"))
              /\ last' = Call("createNotebookTextModel", <<uri, m>>, "ok",
                              <<"onDidAddNotebookDocument">>)
    /\ UNCHANGED <<storeVars, ctrlVars, ioVars, rendererVars, kernelVars, markdownVars>>

\* The listeners of onDidAddNotebookDocument are done and create returns.
createReturns ==
    /\ stack # <<>>
    /\ Top.fn = "createNotebookTextModel"
    /\ stack' = Pop
    /\ last' = Call("createReturns", Top.m, "return", <<>>)
    /\ UNCHANGED <<_models, models, storeVars, ctrlVars, ioVars, rendererVars, kernelVars, markdownVars>>

destoryNotebookDocument(m) ==
    /\ CanCall
    /\ m \in Created
    /\ stack' = Append(stack, Frame("_onWillDisposeDocument", m, NoModel, "enter"))
    /\ last' = Call("destoryNotebookDocument", m, "enter", <<>>)
    /\ UNCHANGED <<_models, models, storeVars, ctrlVars, ioVars, rendererVars, kernelVars, markdownVars>>

\* The owner of a model calls model.dispose().
disposeModel(m) ==
    /\ CanCall
    /\ m \in Created
    /\ stack' = Append(stack, Frame("dispose", m, NoModel, "enter"))
    /\ last' = Call("dispose", m, "enter", <<>>)
    /\ UNCHANGED <<_models, models, storeVars, ctrlVars, ioVars, rendererVars, kernelVars, markdownVars>>

_onWillDisposeDocument ==
    /\ stack # <<>>
    /\ Top.fn = "_onWillDisposeDocument"
    /\ \/ /\ Top.pc = "enter"
          /\ LET uri == models[Top.m].uri
                 modelData == getModelData(_models, Top.m)
             IN  /\ _models' = DeleteFromIndex(_models, uri)
                 /\ IF modelData = NoModel
                    THEN stack' = Pop
                    ELSE stack' = Append([stack EXCEPT ![Len(stack)] =
                                             Frame(Top.fn, Top.m, modelData, "disposeModel")],
                                         Frame("dispose", modelData, NoModel, "enter"))
          /\ last' = Call("_onWillDisposeDocument", Top.m, "enter", <<>>)
          /\ UNCHANGED models
       \/ /\ Top.pc = "disposeModel"
          /\ models' = [models EXCEPT ![Top.md].listening = FALSE,
                                      ![Top.md].removed = @ + 1]
          /\ stack' = TopAt("listeners")
          /\ last' = Call("_onWillDisposeDocument", Top.md, "fire",
                          <<"onDidRemoveNotebookDocument">>)
          /\ UNCHANGED _models
       \/ /\ Top.pc = "listeners"
          /\ stack' = Pop
          /\ last' = Call("_onWillDisposeDocument", Top.md, "return", <<>>)
          /\ UNCHANGED <<_models, models>>
    /\ UNCHANGED <<storeVars, ctrlVars, ioVars, rendererVars, kernelVars, markdownVars>>

\* NotebookTextModel.dispose(): fires onWillDispose, to the ModelData
\* listener first, unless the model is disposed; then disposes itself.
modelDispose ==
    /\ stack # <<>>
    /\ Top.fn = "dispose"
    /\ \/ /\ Top.pc = "enter"
          /\ IF models[Top.m].state = "disposed"
             THEN /\ stack' = Pop
                  /\ UNCHANGED models
             ELSE /\ models' = [models EXCEPT ![Top.m].state = "disposing"]
                  /\ IF models[Top.m].listening
                     THEN stack' = Append(TopAt("notify"),
                                          Frame("_onWillDisposeDocument", Top.m, NoModel, "enter"))
                     ELSE stack' = TopAt("listeners")
          /\ last' = Call("dispose", Top.m, "fire", <<>>)
       \/ /\ Top.pc = "notify"
          /\ stack' = TopAt("listeners")
          /\ last' = Call("dispose", Top.m, "listeners", <<>>)
          /\ UNCHANGED models
       \/ /\ Top.pc = "listeners"
          /\ models' = [models EXCEPT ![Top.m].state = "disposed"]
          /\ stack' = Pop
          /\ last' = Call("dispose", Top.m, "return", <<>>)
    /\ UNCHANGED <<_models, storeVars, ctrlVars, ioVars, rendererVars, kernelVars, markdownVars>>

(* ----------------------- NotebookService: document I/O ----------------- *)

\* A slot of an asynchronous call: the operation and its viewType, where it
\* is suspended, the activation events it requested so far, the provider
\* _withProvider returned, its result or failure, the document-saved events
\* it fired; and as history, whether a controller was registered each time
\* an activation completed, and what the controller call returned.
Idle ==
    [op |-> None, viewType |-> None, pc |-> "idle", requested |-> <<>>,
     observed |-> <<>>, provider |-> None, outcome |-> None, result |-> None,
     saved |-> 0]

ResolvingOps == {"canResolve", "fetchNotebookRawData"}

SavingOps == {"save", "saveAs"}

DirectOps == SavingOps \cup {"backup"}

\* What a controller call can come back with: a value, or a failure.
ControllerOutcomes(op) ==
    IF op \in SavingOps THEN {"true", "false", "fail"}
    ELSE IF op = "backup" THEN {"backupId", "undefined", "fail"}
    ELSE {"data", "fail"}

Free(k) == calls[k].pc \in {"idle", "done"}

\* this._notebookProviders.has(viewType)
hasProvider(viewType) == _notebookProviders[viewType] # None

\* _withProvider without its check: whatever the map holds is the provider.
_withProviderUnchecked(viewType) == _notebookProviders[viewType]

\* _withProvider: the registered provider, or the failure it throws.
_withProvider(viewType) ==
    IF _notebookProviders[viewType] = None THEN "noProvider" ELSE _notebookProviders[viewType]

Goto(pc, event) == [return |-> FALSE, pc |-> pc, event |-> event, value |-> FALSE]

Return(value) == [return |-> TRUE, pc |-> "returned", event |-> None, value |-> value]

\* canResolve that answers true once it has requested the last resort.
canResolveOptimistic(pc, viewType) ==
    IF pc = "onNotebook:*"
    THEN IF hasProvider(viewType) THEN Return(TRUE) ELSE Goto("whenInstalled", None)
    ELSE IF pc = "whenInstalled"
    THEN Goto("onNotebook:viewType", "onNotebook:" \o viewType)
    ELSE IF pc = "onNotebook:viewType"
    THEN IF hasProvider(viewType) THEN Return(TRUE) ELSE Goto("*", "*")
    ELSE Return(TRUE)

\* canResolve from the await it is suspended in to the next await or to
\* its return: the event it requests next, or the value it returns.
canResolve(pc, viewType) ==
    IF pc = "onNotebook:*"
    THEN IF hasProvider(viewType)
         THEN Return(hasProvider(viewType))
         ELSE Goto("whenInstalled", None)
    ELSE IF pc = "whenInstalled"
    THEN Goto("onNotebook:viewType", "onNotebook:" \o viewType)
    ELSE IF pc = "onNotebook:viewType"
    THEN IF hasProvider(viewType) THEN Return(TRUE) ELSE Goto("*", "*")
    ELSE Return(hasProvider(viewType))

BoolText(b) == IF b THEN "true" ELSE "false"

\* save and saveAs that fire the event whatever the controller returned.
firesSavedAlways(ret) == ret # "fail"

\* if (ret) { this._onNotebookDocumentSaved.fire(resource); }
firesSaved(ret) == ret = "true"

\* canResolve(viewType), alone or as the first statement of
\* fetchNotebookRawData, up to its first await.
startResolving(k, op, viewType) ==
    /\ Free(k)
    /\ calls' = [calls EXCEPT ![k] =
                    [Idle EXCEPT !.op = op, !.viewType = viewType,
                                 !.pc = "onNotebook:*", !.requested = <<"onNotebook:*">>]]
    /\ last' = Call(op, viewType, "await", <<>>)
    /\ UNCHANGED <<storeVars, ctrlVars, modelVars, rendererVars, kernelVars, markdownVars>>

\* An awaited activateByEvent or whenInstalledExtensionsRegistered
\* completes and canResolve runs on.
canResolveResumes(k) ==
    LET c == calls[k]
        next == canResolve(c.pc, c.viewType)
        seen == IF c.pc = "whenInstalled" THEN c.observed
                ELSE Append(c.observed, _notebookProviders[c.viewType] # None)
    IN  /\ c.pc \in {"onNotebook:*", "whenInstalled", "onNotebook:viewType", "*"}
        /\ calls' = [calls EXCEPT ![k] =
              IF next.return
              THEN [c EXCEPT !.observed = seen, !.result = BoolText(next.value),
                             !.pc = IF c.op = "canResolve" THEN "done" ELSE "resolved"]
              ELSE [c EXCEPT !.observed = seen, !.pc = next.pc,
                             !.requested = IF next.event = None THEN @
                                           ELSE Append(@, next.event)]]
        /\ last' = Call(c.op, c.viewType, "resume", <<>>)
        /\ UNCHANGED <<storeVars, ctrlVars, modelVars, rendererVars, kernelVars, markdownVars>>

\* fetchNotebookRawData runs on with the value canResolve resolved to.
fetchNotebookRawData(k) ==
    LET c == calls[k]
        provider == _withProvider(c.viewType)
    IN  /\ c.pc = "resolved"
        /\ calls' = [calls EXCEPT ![k] =
              IF c.result # "true" \/ provider = "noProvider"
              THEN [c EXCEPT !.pc = "done", !.result = "noProvider"]
              ELSE [c EXCEPT !.pc = "controller", !.provider = provider, !.result = None]]
        /\ last' = Call(c.op, c.viewType, "resume", <<>>)
        /\ UNCHANGED <<storeVars, ctrlVars, modelVars, rendererVars, kernelVars, markdownVars>>

\* save, saveAs and backup up to their await of the controller.
startDirect(k, op, viewType) ==
    LET provider == _withProvider(viewType)
    IN  /\ Free(k)
        /\ calls' = [calls EXCEPT ![k] =
              IF provider = "noProvider"
              THEN [Idle EXCEPT !.op = op, !.viewType = viewType,
                                !.pc = "done", !.result = "noProvider"]
              ELSE [Idle EXCEPT !.op = op, !.viewType = viewType,
                                !.pc = "controller", !.provider = provider]]
        /\ last' = Call(op, viewType, "await", <<>>)
        /\ UNCHANGED <<storeVars, ctrlVars, modelVars, rendererVars, kernelVars, markdownVars>>

\* The controller's openNotebook, save, saveAs or backup completes and the
\* call runs to its end.
controllerReturns(k, ret) ==
    LET c == calls[k]
    IN  /\ c.pc = "controller"
        /\ ret \in ControllerOutcomes(c.op)
        /\ calls' = [calls EXCEPT ![k] =
              [c EXCEPT !.pc = "done", !.outcome = ret, !.result = ret,
                        !.saved = IF c.op \in SavingOps /\ firesSaved(ret)
                                  THEN @ + 1 ELSE @]]
        /\ last' = Call(c.op, c.viewType, "return",
                        IF c.op \in SavingOps /\ firesSaved(ret)
                        THEN <<"onNotebookDocumentSaved">> ELSE <<>>)
        /\ UNCHANGED <<storeVars, ctrlVars, modelVars, rendererVars, kernelVars, markdownVars>>

(* --------------------------- specifications ---------------------------- *)

\* The lists storage can hold: what saveMemento wrote, so no id twice.
PersistedDescriptors == { Descriptor(ContributedInfo(c)) : c \in Contributions }
                        \cup { Descriptor(DynamicInfo("custom", c)) :
                                 c \in { k \in Controllers : k.viewOptions } }

PersistedLists ==
    { p \in SeqsUpTo(PersistedDescriptors, MaxPersisted) :
        \A i, j \in 1..Len(p) : p[i].id = p[j].id => i = j }

\* The constructor of NotebookProviderInfoStore on a stored list.
constructStore(stored) ==
    addAll(Store(<<>>, stored),
           [i \in 1..Len(stored) |-> NotebookProviderInfo(stored[i])])

\* The service right after its constructor ran on a stored list, with the
\* display-order setting and the screen-reader mode it found.
ConstructedIn(stored, setting, screenReader) ==
    LET st == constructStore(stored)
    IN  /\ _contributedEditors = st.editors
        /\ userOrderSetting = setting
        /\ screenReaderOptimized = screenReader
        /\ _displayOrder = updateOrder(setting, screenReader)
        /\ _notebookKernelProviders = <<>>
        /\ extensionIds = <<>>
        /\ extensionDescriptions = <<>>
        /\ kernelHandles = {}
        /\ kernelsCall = NoKernelsCall
        /\ _markdownRenderersInfos = <<>>
        /\ persisted = st.persisted
        /\ viewTypesRegistry = _updateProviderExtensionsInfo(st.editors)
        /\ _handled = FALSE
        /\ setupCalled = FALSE
        /\ _notebookProviders = [v \in ViewTypes |-> None]
        /\ handles = {}
        /\ _models = [u \in Uris |-> NoModel]
        /\ models = [m \in ModelIds |-> NotCreated]
        /\ stack = <<>>
        /\ calls = [k \in CallIds |-> Idle]
        /\ last = Call("constructor", stored, "ok", <<>>)

\* The service right after its constructor ran on a stored list, before
\* any renderer was declared and any output was resolved.
Constructed(stored) ==
    /\ ConstructedIn(stored, Undefined, FALSE)
    /\ contributedRenderers = <<>>
    /\ output = NoOutput

InitStore == \E stored \in PersistedLists : Constructed(stored)

\* The infos handed to the store's add() from outside.
AddedInfos == { ContributedInfo(c) : c \in Contributions }
              \cup { DynamicInfo(v, c) :
                       v \in ViewTypes, c \in { k \in Controllers : k.viewOptions } }

\* The infos handed to the renderer store's add() from outside.
AddedRenderers ==
    { NotebookOutputRendererInfo(c.id, c) :
        c \in { k \in RendererContributions : k.id # None /\ k.entrypoint # None } }

\* The public operations of NotebookProviderInfoStore and of
\* NotebookOutputRendererInfoStore, and the signal the former listens to.
NextStore ==
    \/ \E extensions \in Declarations : setupHandler(extensions)
    \/ onDidRegisterExtensions
    \/ \E info \in AddedInfos : storeAdd(info)
    \/ storeClear
    \/ \E info \in AddedRenderers : rendererStoreAdd(info)
    \/ rendererStoreClear

StoreSpec == InitStore /\ [][NextStore]_vars

\* The provider-info store filled from outside and asked for the providers
\* of a resource.
NextLookup ==
    \/ \E info \in AddedInfos : storeAdd(info)
    \/ storeClear
    \/ \E resource \in Resources : storeGetContributedNotebook(resource)

LookupSpec == InitStore /\ [][NextLookup]_vars

\* The store as NotebookService drives it, with the controller registry.
NextService ==
    \/ \E extensions \in Declarations : setupHandler(extensions)
    \/ onDidRegisterExtensions
    \/ \E viewType \in ViewTypes, controller \in Controllers :
          registerNotebookController(viewType, controller)
    \/ \E handle \in handles : disposeController(handle)

ServiceSpec == InitStore /\ [][NextService]_vars

\* The model registry, with the listeners of its events calling back in.
NextModels ==
    \/ \E uri \in Uris : createNotebookTextModel(uri)
    \/ createReturns
    \/ \E m \in ModelIds : destoryNotebookDocument(m)
    \/ \E m \in ModelIds : disposeModel(m)
    \/ _onWillDisposeDocument
    \/ modelDispose

ModelSpec == Constructed(<<>>) /\ [][NextModels]_vars

\* The renderer store as the extension point and outside callers drive it.
NextRenderers ==
    \/ \E renderers \in RendererBatches : rendererSetHandler(renderers)
    \/ \E info \in AddedRenderers : rendererStoreAdd(info)
    \/ rendererStoreClear

RendererSpec == Constructed(<<>>) /\ [][NextRenderers]_vars

\* The renderer stores that declaration batches leave.
RendererStores == { registerRenderers(<<>>, batch) : batch \in RendererBatches }

\* The documents and outputs getMimeTypeInfo is called on.
OutputDtos == [outputs : Outputs, trusted : BOOLEAN]

InitMime ==
    \E renderers \in RendererStores, setting \in DisplayOrderSettings,
       screenReader \in BOOLEAN, out \in OutputDtos :
        /\ ConstructedIn(<<>>, setting, screenReader)
        /\ contributedRenderers = renderers
        /\ output = out

\* Mime-type resolution, with the display order following the
\* configuration and the screen-reader mode.
NextMime ==
    \/ getMimeTypeInfo
    \/ \E affectedKeys \in AffectedKeys, setting \in DisplayOrderSettings :
          onDidChangeConfiguration(affectedKeys, setting)
    \/ \E screenReader \in BOOLEAN : onDidChangeScreenReaderOptimized(screenReader)

MimeSpec == InitMime /\ [][NextMime]_vars

\* The markdown renderers as the extension point declares them.
NextMarkdown ==
    \/ \E renderers \in MarkdownBatches : markdownSetHandler(renderers)
    \/ getMarkdownRendererInfo

MarkdownSpec == Constructed(<<>>) /\ [][NextMarkdown]_vars

\* The kernel-provider store and the kernel enumeration.
NextKernels ==
    \/ \E provider \in KernelProviders : kernelAdd(provider)
    \/ \E provider \in kernelHandles : kernelDispose(provider)
    \/ \E viewType \in ViewTypes : getNotebookKernels(viewType)
    \/ \E index \in kernelsCall.pending :
          \E e \in Enumerations(kernelsCall.providers[index]) :
             provideKernelsSettles(index, e)

KernelSpec == Constructed(<<>>) /\ [][NextKernels]_vars

\* The asynchronous calls, with controllers registered and deregistered
\* while they are suspended.
NextIO ==
    \/ \E k \in CallIds, op \in ResolvingOps, viewType \in ViewTypes :
          startResolving(k, op, viewType)
    \/ \E k \in CallIds : canResolveResumes(k)
    \/ \E k \in CallIds : fetchNotebookRawData(k)
    \/ \E k \in CallIds, op \in DirectOps, viewType \in ViewTypes :
          startDirect(k, op, viewType)
    \/ \E k \in CallIds, ret \in {"true", "false", "fail", "backupId", "undefined", "data"} :
          controllerReturns(k, ret)
    \/ \E viewType \in ViewTypes, controller \in Controllers :
          registerNotebookController(viewType, controller)
    \/ \E handle \in handles : disposeController(handle)

IOSpec == Constructed(<<>>) /\ [][NextIO]_vars

(* ------------------------------- claims -------------------------------- *)

\* The list in storage holds the entries of the store, in the same order.
SameEntries(saved, editors) ==
    /\ Len(saved) = Len(editors)
    /\ \A i \in 1..Len(editors) :
          /\ saved[i].id = editors[i].id
          /\ saved[i].selectors = editors[i].selectors
          /\ saved[i].priority = editors[i].priority
          /\ saved[i].dynamicContribution = editors[i].dynamicContribution

\* The first contribution of a batch that declares the viewType.
FirstDeclared(extensions, viewType) ==
    extensions[CHOOSE i \in 1..Len(extensions) :
                  /\ extensions[i].viewType = viewType
                  /\ \A j \in 1..(i - 1) : extensions[j].viewType # viewType]

\* C4: registerNotebookController for a viewType that has a controller
\* throws and changes nothing: the controller map, the provider-info store
\* and the persisted list stay as they were and no editor-types-changed
\* event fires; the map holds one controller or none per viewType.
C4_DuplicateControllerRejected ==
    /\ [](\A v \in ViewTypes : _notebookProviders[v] \in ControllerIds \cup {None})
    /\ [][\A v \in ViewTypes :
            (/\ last'.op = "registerNotebookController"
             /\ last'.arg[1] = v
             /\ _notebookProviders[v] # None)
            => /\ last'.res = "throw"
               /\ last'.ev = <<>>
               /\ UNCHANGED <<_notebookProviders, _contributedEditors, persisted>>]_vars

\* C4 witness: a registration was refused while another controller holds
\* the viewType.
C4_Witness ==
    /\ last.op = "registerNotebookController"
    /\ last.res = "throw"
    /\ _notebookProviders[last.arg[1]] # last.arg[2]
    /\ Len(_contributedEditors) > 0

\* C8: after setupHandler(declarations) the ids of the store are exactly
\* the declared viewTypes, each entry is the one built from the first
\* declaration of its viewType and is not dynamic, and the persisted list
\* holds the same entries.
C8_SetupHandlerReplaces ==
    last.op = "setupHandler" =>
        /\ { _contributedEditors[i].id : i \in 1..Len(_contributedEditors) }
              = { last.arg[i].viewType : i \in 1..Len(last.arg) }
        /\ \A i, j \in 1..Len(_contributedEditors) :
              _contributedEditors[i].id = _contributedEditors[j].id => i = j
        /\ \A i \in 1..Len(_contributedEditors) :
              LET e == _contributedEditors[i]
                  d == FirstDeclared(last.arg, e.id)
              IN  /\ ~e.dynamicContribution
                  /\ e.selectors = d.selector
                  /\ e.priority = IF d.priority \in {None, "default"}
                                  THEN "default" ELSE "option"
        /\ SameEntries(persisted, _contributedEditors)

\* C8 witness: setupHandler ran on a batch that repeats a viewType while a
\* controller with view options is registered for another viewType, whose
\* dynamic entry the call dropped.
C8_Witness ==
    /\ last.op = "setupHandler"
    /\ Len(last.arg) = 2
    /\ last.arg[1].viewType = last.arg[2].viewType
    /\ last.arg[1] # last.arg[2]
    /\ \E v \in ViewTypes :
          /\ _notebookProviders[v] = "cB"
          /\ ~Has(_contributedEditors, v)

\* C9 as claimed: after any sequence of add, clear, setupHandler and the
\* end-of-activation signal the persisted list holds exactly the entries
\* of the store.
C9_PersistedAfterEveryOperation ==
    SameEntries(persisted, _contributedEditors)

\* C9 amended: add (when it inserts), setupHandler and the self-heal write
\* the list, and after each the persisted list holds exactly the entries of
\* the store; the two stay equal across every operation but clear(), which
\* empties the store and leaves the persisted list as it was.
C9_PersistedOnEveryWrite ==
    [][/\ (\/ last'.op = "setupHandler"
           \/ last'.op = "add" /\ ~Has(_contributedEditors, last'.arg.id)
           \/ last'.op = "onDidRegisterExtensions" /\ ~setupCalled)
          => SameEntries(persisted', _contributedEditors')
       /\ (last'.op # "clear" /\ SameEntries(persisted, _contributedEditors))
          => SameEntries(persisted', _contributedEditors')
       /\ last'.op = "clear"
          => _contributedEditors' = <<>> /\ persisted' = persisted]_vars

\* C9 witness: an add after setupHandler inserted a second entry and the
\* persisted list holds both.
C9_Witness ==
    /\ last.op = "add"
    /\ setupCalled
    /\ Len(_contributedEditors) = 2
    /\ _contributedEditors[2] = last.arg
    /\ SameEntries(persisted, _contributedEditors)

\* C10: the constructed store shows the entries found in storage; the
\* extensions-registered signal empties the store and the persisted list
\* when setupHandler was never called, and changes neither when it was.
C10_StartupSelfHeal ==
    /\ [](last.op = "constructor" =>
            /\ SameEntries(last.arg, _contributedEditors)
            /\ SameEntries(persisted, _contributedEditors))
    /\ [][last'.op = "onDidRegisterExtensions" =>
            IF setupCalled
            THEN UNCHANGED <<_contributedEditors, persisted>>
            ELSE _contributedEditors' = <<>> /\ persisted' = <<>>]_vars

\* C10 witness: the signal arrived with setupHandler never called and
\* emptied a store that held the dynamic entry of a registered controller.
C10_Witness ==
    /\ last.op = "onDidRegisterExtensions"
    /\ ~setupCalled
    /\ _contributedEditors = <<>>
    /\ persisted = <<>>
    /\ \E v \in ViewTypes : _notebookProviders[v] = "cB"

\* Code outside the service is running: a caller at top level, or a
\* listener of one of the events.
Observable == IF stack = <<>> THEN TRUE ELSE Top.pc = "listeners"

\* The models a frame is in the middle of removing or disposing.
BeingRemoved(f) ==
    IF f.fn = "_onWillDisposeDocument" /\ f.pc \in {"disposeModel", "listeners"}
    THEN {f.md}
    ELSE IF f.fn = "dispose" /\ f.pc = "listeners" THEN {f.m} ELSE {}

\* A dispose() of the model has not returned yet, or the removal that
\* called it has not fired its event yet.
DisposalInProgress(m) ==
    \E i \in 1..Len(stack) :
        \/ stack[i].fn = "dispose" /\ stack[i].m = m
        \/ stack[i].fn = "_onWillDisposeDocument" /\ stack[i].md = m
              /\ stack[i].pc = "disposeModel"

\* C1: right after a successful createNotebookTextModel the lookup of the
\* uri returns the created model; once a model is disposed (by
\* destoryNotebookDocument or by its own dispose, which re-enters the
\* removal path) and the disposal is over, the lookup of its uri returns
\* nothing, or a model created later, and exactly one
\* onDidRemoveNotebookDocument has fired for it; no model ever gets two.
C1_ModelLifecycle ==
    /\ (last.op = "createNotebookTextModel" /\ last.res = "ok")
          => getNotebookTextModel(last.arg[1]) = last.arg[2]
    /\ \A m \in ModelIds : models[m].removed <= 1
    /\ Observable =>
          \A m \in Created :
             (models[m].state = "disposed" /\ ~DisposalInProgress(m)) =>
                /\ \/ getNotebookTextModel(models[m].uri) = NoModel
                   \/ getNotebookTextModel(models[m].uri) > m
                /\ models[m].removed = 1

\* C1 witness: the owner's dispose() of a registered model has returned at
\* top level, having re-entered the removal path, with one removal event.
C1_Witness ==
    /\ stack = <<>>
    /\ last.op = "dispose"
    /\ last.res = "return"
    /\ models[last.arg].state = "disposed"
    /\ models[last.arg].removed = 1
    /\ getNotebookTextModel(models[last.arg].uri) = NoModel

\* C2: createNotebookTextModel for a uri with a registered model throws,
\* leaves the index and every model as they were and fires no add event;
\* otherwise it registers one new model under the uri and fires exactly one
\* add event before it returns; a model of the index is registered under
\* its own uri only.
C2_DuplicateModelRejected ==
    /\ [](\A u \in Uris :
            _models[u] # NoModel =>
               /\ _models[u] \in Created
               /\ models[_models[u]].uri = u)
    /\ [][\A u \in Uris :
            (/\ last'.op = "createNotebookTextModel"
             /\ last'.arg[1] = u)
            => IF _models[u] # NoModel
               THEN /\ last'.res = "throw"
                    /\ last'.ev = <<>>
                    /\ UNCHANGED <<_models, models, stack>>
               ELSE /\ last'.res = "ok"
                    /\ last'.ev = <<"onDidAddNotebookDocument">>
                    /\ \E m \in ModelIds :
                          /\ models[m].added = 0
                          /\ models'[m].added = 1
                          /\ _models' = [_models EXCEPT ![u] = m]
                          /\ \A n \in ModelIds \ {m} : models'[n] = models[n]
                    /\ Top'.fn = "createNotebookTextModel"]_vars

\* C2 witness: a listener's createNotebookTextModel was refused for a uri
\* that holds a model.
C2_Witness ==
    /\ last.op = "createNotebookTextModel"
    /\ last.res = "throw"
    /\ getNotebookTextModel(last.arg[1]) # NoModel
    /\ stack # <<>>

\* C3: while a removal disposes a model, in the listeners of the model's
\* own onWillDispose and in the listeners of the removal event, the lookup
\* of the uri does not return that model; the removal event is fired after
\* the listener bundle is disposed, the bundle after the model, and a
\* disposed model is not in the index.
C3_RemovalOrdering ==
    /\ \A i \in 1..Len(stack) :
          \A m \in BeingRemoved(stack[i]) : getNotebookTextModel(models[m].uri) # m
    /\ \A m \in Created :
          /\ models[m].removed > 0 => ~models[m].listening
          /\ ~models[m].listening => models[m].state = "disposed"
          /\ models[m].state = "disposed" => getNotebookTextModel(models[m].uri) # m

\* C3 witness: destoryNotebookDocument is disposing a model, the listeners
\* of the model's onWillDispose run, and the uri has no model.
C3_Witness ==
    /\ Len(stack) = 2
    /\ stack[1].fn = "_onWillDisposeDocument"
    /\ stack[1].pc = "disposeModel"
    /\ stack[2].fn = "dispose"
    /\ stack[2].pc = "listeners"
    /\ stack[2].m = stack[1].md
    /\ getNotebookTextModel(models[stack[2].m].uri) = NoModel
    /\ models[stack[2].m].removed = 0

(* ------------------------- claims: document I/O ------------------------ *)

IOOps == {"fetchNotebookRawData"} \cup DirectOps

StartsDirect == last'.op \in DirectOps /\ last'.res = "await"

\* C5 as claimed: each of open, save, saveAs and backup has requested
\* activation through canResolve by the time it delegates to a controller
\* or fails.
C5_EveryOperationResolvesFirst ==
    \A k \in CallIds :
        (calls[k].op \in IOOps /\ calls[k].pc \in {"controller", "done"})
            => (calls[k].requested # <<>> /\ calls[k].requested[1] = "onNotebook:*")

\* C5, amended: open resolves the controller through canResolve first,
\* fails with the no-provider error when canResolve was false or nothing is
\* registered when it runs on, and only otherwise delegates, to the
\* controller registered at that moment. save, saveAs and backup request no
\* activation: they fail with the no-provider error when no controller is
\* registered at the call, and otherwise delegate to the registered one.
C5_OpenResolvesOthersLookUp ==
    /\ [](\A k \in CallIds :
            /\ calls[k].op \in DirectOps => calls[k].requested = <<>>
            /\ (calls[k].op = "fetchNotebookRawData"
                    /\ calls[k].pc \in {"resolved", "controller", "done"})
                 => (calls[k].requested # <<>> /\ calls[k].requested[1] = "onNotebook:*")
            /\ calls[k].pc = "controller" => calls[k].provider \in ControllerIds)
    /\ [][\A k \in CallIds :
            /\ (calls[k].pc = "resolved" /\ calls'[k] # calls[k]) =>
                 IF calls[k].result = "true" /\ _notebookProviders[calls[k].viewType] # None
                 THEN /\ calls'[k].pc = "controller"
                      /\ calls'[k].provider = _notebookProviders[calls[k].viewType]
                 ELSE /\ calls'[k].pc = "done"
                      /\ calls'[k].result = "noProvider"
            /\ (StartsDirect /\ calls'[k].op = last'.op) =>
                 IF _notebookProviders[last'.arg] # None
                 THEN /\ calls'[k].pc = "controller"
                      /\ calls'[k].provider = _notebookProviders[last'.arg]
                 ELSE /\ calls'[k].pc = "done"
                      /\ calls'[k].result = "noProvider"]_vars

\* A save delegated to the registered controller with no activation
\* requested.
C5_Witness ==
    \E k \in CallIds :
        /\ calls[k].op = "save"
        /\ calls[k].pc = "controller"
        /\ calls[k].provider \in ControllerIds
        /\ calls[k].requested = <<>>

ActivationOrder(viewType) == <<"onNotebook:*", "onNotebook:" \o viewType, "*">>

IsPrefix(s, t) == Len(s) <= Len(t) /\ \A i \in 1..Len(s) : s[i] = t[i]

\* C6: canResolve requests onNotebook:*, then onNotebook:<viewType> (after
\* whenInstalledExtensionsRegistered), then *, in that order; an event after
\* the first is requested only when no controller was registered for the
\* viewType when the activation before it completed; and canResolve returns
\* true exactly when a controller is registered when its last awaited
\* activation completes, whatever was registered or deregistered meanwhile.
C6_CanResolve ==
    \A k \in CallIds :
        LET c == calls[k]
        IN  c.op \in ResolvingOps =>
              /\ IsPrefix(c.requested, ActivationOrder(c.viewType))
              /\ c.requested # <<>>
              /\ c.pc = "whenInstalled" => Len(c.requested) = 1
              /\ \A i \in 2..Len(c.requested) :
                    Len(c.observed) >= i - 1 /\ ~c.observed[i - 1]
              /\ ((c.op = "canResolve" /\ c.pc = "done") \/ c.pc = "resolved")
                    => /\ Len(c.observed) = Len(c.requested)
                       /\ c.result = (IF c.observed[Len(c.observed)]
                                      THEN "true" ELSE "false")

\* canResolve returned true after all three requests: the controller was
\* registered while it awaited the last one.
C6_Witness ==
    \E k \in CallIds :
        /\ calls[k].op = "canResolve"
        /\ calls[k].pc = "done"
        /\ calls[k].result = "true"
        /\ Len(calls[k].requested) = 3

\* C7: save and saveAs fire the document-saved event exactly once, when the
\* controller call has completed, if and only if the controller returned
\* true; when it returned false or failed no event is fired, and in every
\* case the caller gets what the controller returned or failed with.
C7_SavedOnSuccessOnly ==
    \A k \in CallIds :
        LET c == calls[k]
        IN  c.op \in SavingOps =>
              /\ c.pc # "done" => c.saved = 0
              /\ (c.pc = "done" /\ c.provider # None) =>
                    /\ c.saved = (IF c.outcome = "true" THEN 1 ELSE 0)
                    /\ c.result = c.outcome
                    /\ (last.op = c.op /\ last.res = "return") =>
                          last.ev = (IF c.outcome = "true"
                                     THEN <<"onNotebookDocumentSaved">> ELSE <<>>)
              /\ (c.pc = "done" /\ c.provider = None) => c.saved = 0

\* A saveAs whose controller returned true has fired the event once.
C7_Witness ==
    \E k \in CallIds :
        /\ calls[k].op = "saveAs"
        /\ calls[k].pc = "done"
        /\ calls[k].outcome = "true"
        /\ calls[k].saved = 1
        /\ last.ev = <<"onNotebookDocumentSaved">>

(* --------------------------- claims: the stores ------------------------ *)

\* C11: add(info) on the provider-info store and on the output-renderer
\* store with an id that is already there changes nothing: the entries and
\* their order stay as they were and, for the provider store, the persisted
\* list is not written; after an add the id is there, and the same add
\* applied a second time leaves the store as the first left it.
C11_FirstRegistrationWins ==
    [][/\ last'.op = "add" =>
            /\ Has(_contributedEditors, last'.arg.id)
                  => UNCHANGED <<_contributedEditors, persisted>>
            /\ Has(_contributedEditors', last'.arg.id)
            /\ (last.op = "add" /\ last.arg = last'.arg)
                  => UNCHANGED <<_contributedEditors, persisted>>
       /\ last'.op = "rendererAdd" =>
            /\ Has(contributedRenderers, last'.arg.id)
                  => UNCHANGED contributedRenderers
            /\ Has(contributedRenderers', last'.arg.id)
            /\ (last.op = "rendererAdd" /\ last.arg = last'.arg)
                  => UNCHANGED contributedRenderers]_vars

\* C11 witness: an add to the provider store of an info that differs from
\* the entry under its id, with a renderer store that holds an entry.
C11_Witness ==
    /\ last.op = "add"
    /\ \E i \in 1..Len(_contributedEditors) :
          /\ _contributedEditors[i].id = last.arg.id
          /\ _contributedEditors[i] # last.arg
    /\ Len(contributedRenderers) > 0

\* The description the registry publishes for a provider.
Published(provider) ==
    IF provider.providerDescription = None THEN "" ELSE provider.providerDescription

\* C12: after every add of a kernel provider and every disposal of a
\* returned handle the two published lists are as long as the array of
\* kernel providers and describe, index by index, the provider at that
\* position (the empty string for a missing description); the array is in
\* registration order: add appends, and a disposal takes out the provider's
\* first occurrence and moves nothing else.
C12_KernelListsMirrorProviders ==
    /\ [](/\ Len(extensionIds) = Len(_notebookKernelProviders)
          /\ Len(extensionDescriptions) = Len(_notebookKernelProviders)
          /\ \A i \in 1..Len(_notebookKernelProviders) :
                /\ extensionIds[i] = _notebookKernelProviders[i].providerExtensionId
                /\ extensionDescriptions[i] = Published(_notebookKernelProviders[i]))
    /\ [][/\ last'.op = "kernelAdd" =>
               /\ Len(_notebookKernelProviders') = Len(_notebookKernelProviders) + 1
               /\ \A i \in 1..Len(_notebookKernelProviders) :
                     _notebookKernelProviders'[i] = _notebookKernelProviders[i]
               /\ _notebookKernelProviders'[Len(_notebookKernelProviders')] = last'.arg
          /\ last'.op = "kernelDispose" =>
               IF \E i \in 1..Len(_notebookKernelProviders) :
                      _notebookKernelProviders[i] = last'.arg
               THEN \E k \in 1..Len(_notebookKernelProviders) :
                      /\ _notebookKernelProviders[k] = last'.arg
                      /\ \A j \in 1..(k - 1) : _notebookKernelProviders[j] # last'.arg
                      /\ Len(_notebookKernelProviders') = Len(_notebookKernelProviders) - 1
                      /\ \A i \in 1..Len(_notebookKernelProviders') :
                            _notebookKernelProviders'[i] =
                               _notebookKernelProviders[IF i < k THEN i ELSE i + 1]
               ELSE UNCHANGED _notebookKernelProviders]_vars

\* C12 witness: the first of two providers was disposed, and the lists
\* describe the one that is left, which has no description.
C12_Witness ==
    /\ last.op = "kernelDispose"
    /\ Len(_notebookKernelProviders) = 1
    /\ _notebookKernelProviders[1].providerDescription = None
    /\ _notebookKernelProviders[1] # last.arg
    /\ extensionIds = <<"extB">>
    /\ extensionDescriptions = <<"">>

\* The enumerations of a call that failed, in the order they failed.
Failures(c) == SelectSeq(c.settled, LAMBDA e : ~e.ok)

\* What the enumeration of the provider at a position of the call resolved
\* to.
DataOf(c, i) ==
    c.settled[CHOOSE k \in 1..Len(c.settled) : c.settled[k].index = i].data

\* The kernel lists of the first n providers of a call, one after another.
RECURSIVE InProviderOrder(_, _)
InProviderOrder(c, n) ==
    IF n = 0 THEN <<>> ELSE InProviderOrder(c, n - 1) \o DataOf(c, n)

\* getNotebookKernels filters the store by selector and starts one
\* enumeration per provider it found.
StartsEveryMatching ==
    (last'.op = "getNotebookKernels" /\ last'.res = "start") =>
        /\ kernelsCall'.providers =
              SelectSeq(_notebookKernelProviders,
                        LAMBDA p : p.selector = "*" \/ p.selector = last'.arg)
        /\ kernelsCall'.pending = 1..Len(kernelsCall'.providers)
        /\ kernelsCall'.settled = <<>>

\* C13 as claimed: the call starts the enumeration of every matching
\* provider and completes, with a result or a failure, only after all of
\* them have completed; the result is the concatenation in provider order,
\* and once an enumeration has failed the call fails with a failure of an
\* enumeration.
C13_CompletesAfterAll ==
    LET c == kernelsCall
    IN  /\ c.outcome # None => c.pending = {}
        /\ c.outcome = "ok" => c.value = InProviderOrder(c, Len(c.providers))
        /\ (c.pending = {} /\ Failures(c) # <<>>) => c.outcome = "failed"

\* C13, amended: the call starts the enumeration of every matching
\* provider; it returns only after all of them have completed, and then the
\* concatenation of their kernel lists in provider registration order,
\* whatever the order they completed in; it fails as soon as one
\* enumeration fails, with that first failure and without waiting for the
\* enumerations still pending, and returns no partial result.
C13_JoinOrFirstFailure ==
    /\ [](LET c == kernelsCall
          IN  /\ c.pending = (1..Len(c.providers)) \ { c.settled[k].index : k \in 1..Len(c.settled) }
              /\ c.outcome = "ok" <=> (c.pc # "idle" /\ c.pending = {} /\ Failures(c) = <<>>)
              /\ c.outcome = "failed" <=> Failures(c) # <<>>
              /\ c.outcome \in {"ok", "failed", None}
              /\ c.outcome = "ok" => c.value = InProviderOrder(c, Len(c.providers))
              /\ c.outcome = "failed" => c.value = Failures(c)[1].data
              /\ c.outcome = None => c.value = <<>>)
    /\ [][StartsEveryMatching]_vars

\* C13 witness: two enumerations completed in the reverse of provider
\* order, both with kernels, and the call returned them in provider order.
C13_Witness ==
    /\ kernelsCall.outcome = "ok"
    /\ Len(kernelsCall.providers) = 2
    /\ kernelsCall.providers[1] # kernelsCall.providers[2]
    /\ Len(kernelsCall.settled) = 2
    /\ kernelsCall.settled[1].index = 2
    /\ Len(kernelsCall.value) = 4
    /\ kernelsCall.value[1] = kernelsCall.settled[2].data[1]

(* ----------------------- claims: renderer declarations ----------------- *)

\* A contribution the handler registers: it has an entry point, and an id
\* or a viewType.
WellFormed(c) == c.entrypoint # None /\ (c.id # None \/ c.viewType # None)

DeclaredId(c) == IF c.id # None THEN c.id ELSE c.viewType

\* The first well-formed contribution of a batch that declares the id.
FirstWellFormed(batch, id) ==
    batch[CHOOSE i \in 1..Len(batch) :
             /\ WellFormed(batch[i]) /\ DeclaredId(batch[i]) = id
             /\ \A j \in 1..(i - 1) :
                   ~(WellFormed(batch[j]) /\ DeclaredId(batch[j]) = id)]

\* C18: after a renderer declaration batch the renderer store holds exactly
\* the ids of the well-formed contributions of the batch, each once and
\* with the entry built from the first well-formed contribution that
\* declares it; a contribution without entry point, or with neither id nor
\* viewType, leaves no entry and stops no other, and nothing else (so
\* nothing of an earlier batch) is in the store.
C18_RendererBatchReplaces ==
    last.op = "rendererSetHandler" =>
        /\ { contributedRenderers[i].id : i \in 1..Len(contributedRenderers) }
              = { DeclaredId(last.arg[i]) :
                    i \in { k \in 1..Len(last.arg) : WellFormed(last.arg[k]) } }
        /\ \A i, j \in 1..Len(contributedRenderers) :
              contributedRenderers[i].id = contributedRenderers[j].id => i = j
        /\ \A i \in 1..Len(contributedRenderers) :
              LET e == contributedRenderers[i]
                  c == FirstWellFormed(last.arg, e.id)
              IN  /\ e.entrypoint = c.entrypoint
                  /\ e.extension = c.extension
                  /\ e.mimeTypes = IF "mimeTypes" \in DOMAIN c THEN c.mimeTypes ELSE {}

\* C18 witness: a batch whose first contribution has no entry point and
\* whose second is well-formed left exactly the second in the store.
C18_Witness ==
    /\ last.op = "rendererSetHandler"
    /\ Len(last.arg) = 2
    /\ last.arg[1].entrypoint = None
    /\ WellFormed(last.arg[2])
    /\ Len(contributedRenderers) = 1
    /\ contributedRenderers[1].entrypoint = last.arg[2].entrypoint

(* ------------------------- claims: getMimeTypeInfo --------------------- *)

\* The ids of the renderers in the store.
RendererIds == { contributedRenderers[i].id : i \in 1..Len(contributedRenderers) }

\* C14: in the sequence getMimeTypeInfo returns, every mime type of the
\* output has an entry (of a renderer of the store, of the built-in
\* renderer or the no-renderer sentinel), every entry is of a mime type of
\* the output, and the entries of one mime type are contiguous, whatever
\* the repetitions in the output and whatever the renderer store holds.
C14_FallbackCompleteness ==
    last.op = "getMimeTypeInfo" =>
        LET outputs == last.arg.outputs
            res == last.res
        IN  /\ \A i \in 1..Len(outputs) :
                  \E k \in 1..Len(res) : res[k].mimeType = outputs[i]
            /\ \A k \in 1..Len(res) :
                  /\ \E i \in 1..Len(outputs) : outputs[i] = res[k].mimeType
                  /\ res[k].rendererId \in
                        RendererIds \cup {BUILTIN_RENDERER_ID, RENDERER_NOT_AVAILABLE}
            /\ \A i, j, k \in 1..Len(res) :
                  (i < j /\ j < k /\ res[i].mimeType = res[k].mimeType)
                      => res[j].mimeType = res[i].mimeType

\* C14 witness: an output that repeats a mime type after another one was
\* resolved, to a renderer entry and a sentinel entry among others.
C14_Witness ==
    /\ last.op = "getMimeTypeInfo"
    /\ Len(last.arg.outputs) = 3
    /\ last.arg.outputs[1] = last.arg.outputs[3]
    /\ last.arg.outputs[1] # last.arg.outputs[2]
    /\ \E k \in 1..Len(last.res) : last.res[k].rendererId \in RendererIds
    /\ \E k \in 1..Len(last.res) : last.res[k].rendererId = RENDERER_NOT_AVAILABLE

\* The renderer ids of the entries of one mime type, in their order.
GroupOf(res, mimeType) ==
    LET group == SelectSeq(res, LAMBDA entry : entry.mimeType = mimeType)
    IN  [k \in 1..Len(group) |-> group[k].rendererId]

\* The ids of the renderers of the store that declare the mime type, in
\* registration order.
MatchingIds(mimeType) ==
    LET matching == SelectSeq(contributedRenderers,
                              LAMBDA info : mimeType \in info.mimeTypes)
    IN  [k \in 1..Len(matching) |-> matching[k].id]

\* C15: for each mime type of the output, the entries getMimeTypeInfo
\* returns for it are one per matching renderer in registration order,
\* followed by one built-in entry exactly when core supports the mime
\* type; without a matching renderer there is exactly one entry, the
\* built-in one when core supports the mime type and the sentinel
\* otherwise.
C15_PerMimeTypeEntries ==
    last.op = "getMimeTypeInfo" =>
        \A i \in 1..Len(last.arg.outputs) :
            LET mimeType == last.arg.outputs[i]
                ids == MatchingIds(mimeType)
            IN  GroupOf(last.res, mimeType) =
                    IF Len(ids) >= 1
                    THEN ids \o (IF mimeTypeSupportedByCore(mimeType)
                                 THEN <<BUILTIN_RENDERER_ID>> ELSE <<>>)
                    ELSE IF mimeTypeSupportedByCore(mimeType)
                         THEN <<BUILTIN_RENDERER_ID>>
                         ELSE <<RENDERER_NOT_AVAILABLE>>

\* C15 witness: an output resolved with a mime type that two renderers
\* declare and core supports, and one that nothing renders.
C15_Witness ==
    /\ last.op = "getMimeTypeInfo"
    /\ \E i \in 1..Len(last.arg.outputs) :
          /\ Len(MatchingIds(last.arg.outputs[i])) = 2
          /\ mimeTypeSupportedByCore(last.arg.outputs[i])
          /\ Len(GroupOf(last.res, last.arg.outputs[i])) = 3
    /\ \E i \in 1..Len(last.arg.outputs) :
          GroupOf(last.res, last.arg.outputs[i]) = <<RENDERER_NOT_AVAILABLE>>

\* C16: every entry getMimeTypeInfo returns for an extension renderer or
\* as the sentinel has the document's trust state; every built-in entry is
\* trusted exactly when its mime type is always secure or the document is
\* trusted; so for an untrusted document and a mime type that is not
\* always secure every entry of the mime type is untrusted.
C16_TrustFlags ==
    last.op = "getMimeTypeInfo" =>
        LET trusted == last.arg.trusted
            res == last.res
        IN  /\ \A k \in 1..Len(res) :
                  res[k].isTrusted =
                      IF res[k].rendererId = BUILTIN_RENDERER_ID
                      THEN (mimeTypeIsAlwaysSecure(res[k].mimeType) \/ trusted)
                      ELSE trusted
            /\ \A k \in 1..Len(res) :
                  (~trusted /\ ~mimeTypeIsAlwaysSecure(res[k].mimeType))
                      => ~res[k].isTrusted

\* C16 witness: an untrusted document resolved to an untrusted renderer
\* entry and an untrusted built-in entry of one mime type, and to a
\* trusted built-in entry of an always secure mime type.
C16_Witness ==
    /\ last.op = "getMimeTypeInfo"
    /\ ~last.arg.trusted
    /\ \E j, k \in 1..Len(last.res) :
          /\ last.res[j].mimeType = last.res[k].mimeType
          /\ last.res[j].rendererId \in RendererIds
          /\ last.res[k].rendererId = BUILTIN_RENDERER_ID
          /\ ~last.res[j].isTrusted /\ ~last.res[k].isTrusted
    /\ \E k \in 1..Len(last.res) :
          /\ last.res[k].rendererId = BUILTIN_RENDERER_ID
          /\ last.res[k].isTrusted

\* The first position of an element in a list, 0 when it is not there.
FirstIndex(list, x) ==
    IF \E i \in 1..Len(list) : list[i] = x
    THEN CHOOSE i \in 1..Len(list) :
            list[i] = x /\ \A j \in 1..(i - 1) : list[j] # x
    ELSE 0

\* The user-configured list and the default list in force: what the
\* configuration holds now and what the screen-reader mode gives now.
UserList == IF "value" \in DOMAIN userOrderSetting THEN userOrderSetting.value ELSE <<>>

DefaultList == IF screenReaderOptimized THEN AccessibleOrder ELSE <<>>

\* The place the preference lists give a mime type: its position in the
\* user list, else behind the user list its position in the default list,
\* else behind both.
Rank(mimeType) ==
    IF FirstIndex(UserList, mimeType) > 0 THEN FirstIndex(UserList, mimeType)
    ELSE IF FirstIndex(DefaultList, mimeType) > 0
         THEN Len(UserList) + FirstIndex(DefaultList, mimeType)
         ELSE Len(UserList) + Len(DefaultList) + 1

\* C17: the sequence getMimeTypeInfo returns has the mime types of the
\* user-configured list first, in the order of that list, then those only
\* in the default list in its order, then those in neither list in the
\* order of their first occurrence in the output; the lists are the ones
\* the configuration and the screen-reader mode give at the time of the
\* call, the default list being empty when the mode is off.
C17_OrderedByPreferenceLists ==
    last.op = "getMimeTypeInfo" =>
        LET outputs == last.arg.outputs
            res == last.res
        IN  \A j, k \in 1..Len(res) :
                (j < k /\ res[j].mimeType # res[k].mimeType) =>
                    \/ Rank(res[j].mimeType) < Rank(res[k].mimeType)
                    \/ /\ Rank(res[j].mimeType) = Rank(res[k].mimeType)
                       /\ FirstIndex(UserList \o DefaultList, res[j].mimeType) = 0
                       /\ FirstIndex(outputs, res[j].mimeType)
                            < FirstIndex(outputs, res[k].mimeType)

\* C17 witness: with a user list and the screen-reader mode on, an output
\* whose items come in the opposite order was resolved to the mime type of
\* the user list, then the one of the default list, then the one of
\* neither.
C17_Witness ==
    /\ last.op = "getMimeTypeInfo"
    /\ screenReaderOptimized
    /\ Len(last.arg.outputs) = 3
    /\ Rank(last.arg.outputs[1]) = Len(UserList) + Len(DefaultList) + 1
    /\ FirstIndex(UserList, last.arg.outputs[2]) = 0
    /\ FirstIndex(DefaultList, last.arg.outputs[2]) > 0
    /\ FirstIndex(UserList, last.arg.outputs[3]) > 0
    /\ last.res[1].mimeType = last.arg.outputs[3]
    /\ last.res[Len(last.res)].mimeType = last.arg.outputs[1]

(* --------------------- claims: controller registration ----------------- *)

\* The controller object of a registration call.
ControllerOf(call) == CHOOSE c \in Controllers : c.id = call.arg[2]

\* The position of the entry of a viewType in the provider-info store, 0
\* when it has none.
EntryOf(editors, viewType) ==
    IF \E i \in 1..Len(editors) : editors[i].id = viewType
    THEN CHOOSE i \in 1..Len(editors) : editors[i].id = viewType
    ELSE 0

\* C19: a registerNotebookController that succeeds with a controller that
\* declares view options adds, when the provider-info store has no entry
\* of the viewType, one entry for it, flagged dynamic, with the
\* controller's filename pattern as selectors, and leaves the others as
\* they are; when the store has an entry it keeps every entry, the one of
\* the viewType with its selectors, priority and dynamic flag and with the
\* controller's options. With a controller without view options the store
\* gets no entry.
C19_DynamicEntry ==
    [][(last'.op = "registerNotebookController" /\ last'.res = "ok") =>
          LET viewType == last'.arg[1]
              controller == ControllerOf(last')
              before == EntryOf(_contributedEditors, viewType)
              Kept(i) ==
                  /\ _contributedEditors'[i].id = _contributedEditors[i].id
                  /\ _contributedEditors'[i].selectors = _contributedEditors[i].selectors
                  /\ _contributedEditors'[i].priority = _contributedEditors[i].priority
                  /\ _contributedEditors'[i].dynamicContribution
                        = _contributedEditors[i].dynamicContribution
                  /\ _contributedEditors'[i].options =
                        IF i = before THEN controller.options
                        ELSE _contributedEditors[i].options
          IN  IF controller.viewOptions /\ before = 0
              THEN /\ Len(_contributedEditors') = Len(_contributedEditors) + 1
                   /\ \A i \in 1..Len(_contributedEditors) : Kept(i)
                   /\ LET info == _contributedEditors'[Len(_contributedEditors')]
                      IN  /\ info.id = viewType
                          /\ info.dynamicContribution
                          /\ info.selectors = controller.filenamePattern
                          /\ info.options = controller.options
              ELSE /\ Len(_contributedEditors') = Len(_contributedEditors)
                   /\ \A i \in 1..Len(_contributedEditors) : Kept(i)
      ]_vars

\* C19 witness: a controller with view options was registered for a
\* viewType that has a declared entry, which kept its selectors and has
\* the controller's options, after another registration had added a
\* dynamic entry.
C19_Witness ==
    /\ last.op = "registerNotebookController"
    /\ last.res = "ok"
    /\ ControllerOf(last).viewOptions
    /\ EntryOf(_contributedEditors, last.arg[1]) > 0
    /\ LET info == _contributedEditors[EntryOf(_contributedEditors, last.arg[1])]
       IN  /\ ~info.dynamicContribution
           /\ info.selectors # ControllerOf(last).filenamePattern
           /\ info.options = ControllerOf(last).options
    /\ \E i \in 1..Len(_contributedEditors) :
          /\ _contributedEditors[i].dynamicContribution
          /\ _contributedEditors[i].selectors = "ipynb"

\* The one editor-types-changed event of a call, fired when the controller
\* map held `provider` for the viewType.
FiredOnceWith(call, viewType, provider) ==
    /\ Len(call.ev) = 1
    /\ call.ev[1].event = "onDidChangeEditorTypes"
    /\ call.ev[1].providers[viewType] = provider

\* C20: a registerNotebookController that succeeds fires exactly one
\* editor-types-changed event, with the controller already in the map;
\* disposing a handle it returned leaves no controller for the viewType
\* and fires one editor-types-changed event, with the controller already
\* gone; a registration for the viewType right after that succeeds.
C20_EditorTypesChanged ==
    [][/\ (last'.op = "registerNotebookController" /\ last'.res = "ok") =>
             /\ _notebookProviders'[last'.arg[1]] = last'.arg[2]
             /\ FiredOnceWith(last', last'.arg[1], last'.arg[2])
       /\ last'.op = "disposeController" =>
             /\ _notebookProviders'[last'.arg[1]] = None
             /\ FiredOnceWith(last', last'.arg[1], None)
       /\ (/\ last.op = "disposeController"
           /\ last'.op = "registerNotebookController"
           /\ last'.arg[1] = last.arg[1]) => last'.res = "ok"
      ]_vars

\* C20 witness: a viewType whose first controller was disposed of has
\* another controller, registered with one event.
C20_Witness ==
    /\ last.op = "registerNotebookController"
    /\ last.res = "ok"
    /\ FiredOnceWith(last, last.arg[1], last.arg[2])
    /\ \E handle \in handles :
          /\ handle[1] = last.arg[1]
          /\ handle[2] # last.arg[2]
    /\ _notebookProviders[last.arg[1]] = last.arg[2]

(* ----------------------- claims: provider lookup ----------------------- *)

\* C21: getContributedNotebook returns, for a resource of scheme untitled,
\* all the providers of the store, and for any other resource exactly the
\* providers with a selector that matches it, in both cases in the order
\* the store holds them.
C21_UntitledMatchesAll ==
    last.op = "getContributedNotebook" =>
        IF last.arg.scheme = "untitled"
        THEN last.res = _contributedEditors
        ELSE last.res = SelectSeq(_contributedEditors,
                                  LAMBDA e : e.selectors = last.arg.extname)

\* C21 witness: the store holds two providers and a lookup about an
\* untitled resource that no selector of theirs matches returned both.
C21_Witness ==
    /\ last.op = "getContributedNotebook"
    /\ Len(_contributedEditors) = 2
    /\ last.arg.scheme = "untitled"
    /\ \A i \in 1..2 : _contributedEditors[i].selectors # last.arg.extname
    /\ last.res = _contributedEditors

(* ------------------- claims: controllers and the store ----------------- *)

\* C22: disposing a handle that registerNotebookController returned for a
\* controller removes no other controller: a controller registered for
\* the viewType by a later call stays registered.
C22_DisposeRemovesOwnOnly ==
    [][last'.op = "disposeController" =>
          LET viewType == last'.arg[1]
          IN  (/\ _notebookProviders[viewType] # None
               /\ _notebookProviders[viewType] # last'.arg[2])
                  => _notebookProviders'[viewType] = _notebookProviders[viewType]
      ]_vars

\* C23: in every reachable state each viewType with a registered
\* controller that declares view options has an entry in the provider-info
\* store, also after setupHandler ran again and after the self-heal at the
\* end of activation.
C23_ControllersHaveEntries ==
    \A viewType \in ViewTypes :
        (/\ _notebookProviders[viewType] # None
         /\ \E c \in Controllers :
               c.id = _notebookProviders[viewType] /\ c.viewOptions)
            => \E i \in 1..Len(_contributedEditors) :
                  _contributedEditors[i].id = viewType

(* ------------------------ claims: model events ------------------------- *)

\* The onDidAddNotebookDocument events fired for models of a uri, and the
\* onDidRemoveNotebookDocument events fired for the uri.
AddEvents(uri) ==
    LET F[m \in 0..MaxModels] ==
            IF m = 0 THEN 0
            ELSE F[m - 1] + (IF models[m].uri = uri THEN models[m].added ELSE 0)
    IN  F[MaxModels]

RemoveEvents(uri) ==
    LET F[m \in 0..MaxModels] ==
            IF m = 0 THEN 0
            ELSE F[m - 1] + (IF models[m].uri = uri THEN models[m].removed ELSE 0)
    IN  F[MaxModels]

Registered(uri) == IF _models[uri] # NoModel THEN 1 ELSE 0

\* The removals that took a model of the uri out of the index and have
\* not fired their event yet.
RemovalsUnderWay(uri) ==
    Cardinality({ i \in 1..Len(stack) :
                    /\ stack[i].fn = "_onWillDisposeDocument"
                    /\ stack[i].pc = "disposeModel"
                    /\ models[stack[i].md].uri = uri })

\* C24: for every uri the add events less the removal events are never
\* negative; they count the model registered under the uri and the
\* removals that have not fired yet, so once every create, destroy and
\* dispose has returned, calls from listeners included, they are 1 when
\* the uri has a model and 0 when it has none. A removal for a model whose
\* uri has no model in the index fires nothing and changes nothing.
C24_EventsMirrorIndex ==
    /\ [](\A uri \in Uris :
            /\ AddEvents(uri) - RemoveEvents(uri) >= 0
            /\ AddEvents(uri) - RemoveEvents(uri)
                  = Registered(uri) + RemovalsUnderWay(uri)
            /\ stack = <<>> =>
                  AddEvents(uri) - RemoveEvents(uri) = Registered(uri))
    /\ [][(/\ stack # <<>>
            /\ Top.fn = "_onWillDisposeDocument"
            /\ Top.pc = "enter"
            /\ _models[models[Top.m].uri] = NoModel)
           => /\ last'.ev = <<>>
              /\ UNCHANGED <<_models, models>>
              /\ stack' = SubSeq(stack, 1, Len(stack) - 1)]_vars

\* C24 witness: every call has returned, the removal of the first model
\* last, and the uri of that model holds the second model, which a
\* listener created during the removal: two add events, one removal.
C24_Witness ==
    /\ stack = <<>>
    /\ last.op = "_onWillDisposeDocument"
    /\ last.res = "return"
    /\ last.arg = 1
    /\ _models[models[1].uri] = 2
    /\ AddEvents(models[1].uri) = 2
    /\ RemoveEvents(models[1].uri) = 1

(* ------------------ claims: markdown renderer declarations ------------- *)

\* C25: after a markdown renderer declaration batch, every contribution
\* with an id and an entry point of every extension of the batch that is
\* built-in or has the proposed API enabled is registered, whatever other
\* extensions the batch holds and wherever they stand in it.
C25_AllowedExtensionsRegistered ==
    last.op = "markdownSetHandler" =>
        \A i \in 1..Len(last.arg) :
            LET extension == last.arg[i]
            IN  (extension.isBuiltin \/ extension.enableProposedApi) =>
                    \A k \in 1..Len(extension.value) :
                        (extension.value[k].id # None
                            /\ extension.value[k].entrypoint # None) =>
                        \E n \in 1..Len(_markdownRenderersInfos) :
                            /\ _markdownRenderersInfos[n].id = extension.value[k].id
                            /\ _markdownRenderersInfos[n].extension = extension.id
                            /\ _markdownRenderersInfos[n].entrypoint
                                  = extension.value[k].entrypoint

====
